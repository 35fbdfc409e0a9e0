---------------------------- MODULE ConsoleFilter ----------------------------
(***************************************************************************)
(* The filter between the guest's serial console and the operator's        *)
(* terminal (terminal/filter.rs), byte by byte.                            *)
(*                                                                         *)
(* A byte is a symbol that stands for its class, or for itself where the   *)
(* filter tells it apart.  What the filter passes goes to a terminal that  *)
(* knows every sequence, C1 controls included.  Beside it an ideal         *)
(* terminal reads the guest's bytes as they are, and acts only on what a   *)
(* console may do: the two must show the same.                             *)
(***************************************************************************)
EXTENDS Naturals, Sequences, SequencesExt

CONSTANTS MAX_SEQ  \* the longest sequence held back

ESC == "ESC"
C0 == {"ENQ", "BEL", "CAN", "LF"}             \* 0x00..0x1f but ESC; CAN stands for SUB too
Intermediates == {" ", "("}                  \* 0x20..0x2f
Digits == {"3", "7", "9"}
ParamBytes == Digits \cup {";", "?"}         \* 0x30..0x3f
Finals == {"[", "]", "B", "J", "h", "q", "x"} \* 0x40..0x7e; "x" asks for a report
StringOpeners == {"]"}                       \* OSC, for DCS, SOS, PM and APC too
DEL == "DEL"
Ascii == Intermediates \cup ParamBytes \cup Finals \cup {DEL}
Leads == {"c2", "e0"}                        \* leads of two and of three bytes
Conts == {"9b", "a9"}                        \* continuation bytes; c2 9b is the C1 CSI
Bytes == {ESC} \cup C0 \cup Ascii \cup Leads \cup Conts \cup {"ff"}
REPLACEMENT == "fffd"

DigitValue(d) == CASE d = "3" -> 3 [] d = "7" -> 7 [] OTHER -> 9
DEC_MODES == {1, 5, 6, 7, 12, 25, 47}

VARIABLES filter,    \* the filter: [state, seq, utf8, want]
          terminal,  \* the operator's terminal: [state, seq, utf8]
          ideal,     \* the ideal terminal on the guest's bytes
          acts       \* what each did with the last byte: [real, ideal]

vars == <<filter, terminal, ideal, acts>>

-----------------------------------------------------------------------------
(* What may reach the terminal. *)

Params(rest) == SelectSeq(rest, LAMBDA b : b \notin Intermediates)
SplitOk(rest) == \A i, j \in DOMAIN rest : i < j /\ rest[i] \in Intermediates => rest[j] \in Intermediates
Inter(rest) == SelectSeq(rest, LAMBDA b : b \in Intermediates)

\* Mutant of erase_allowed: any one digit.
erase_allowedAny(params) == Len(params) <= 1
erase_allowed(params) == params = <<>>

\* The parts between semicolons.
Fields(params) ==
    {SubSeq(params, i + 1, j - 1) : <<i, j>> \in
        {<<a, b>> \in (0 .. Len(params)) \X (1 .. Len(params) + 1) :
            /\ a < b /\ (a = 0 \/ params[a] = ";") /\ (b = Len(params) + 1 \/ params[b] = ";")
            /\ \A k \in a + 1 .. b - 1 : params[k] # ";"}}
Number(p) == FoldLeft(LAMBDA n, d : 10 * n + DigitValue(d), 0, p)
modes_allowed(params) ==
    \A p \in Fields(params) : p # <<>> /\ Number(p) \in DEC_MODES

\* body is everything after ESC [, its final byte last.
csi_allowed(body) ==
    LET fin == Last(body)
        marked == Len(body) > 1 /\ Head(body) = "?"
        rest == SubSeq(body, IF marked THEN 2 ELSE 1, Len(body) - 1)
        params == Params(rest)
    IN  /\ SplitOk(rest) /\ "?" \notin Range(params)
        /\ \/ ~marked /\ Inter(rest) = <<>> /\ fin = "B"
           \/ Inter(rest) = <<>> /\ fin = "J" /\ erase_allowed(params)
           \/ marked /\ Inter(rest) = <<>> /\ fin = "h" /\ modes_allowed(params)
           \/ ~marked /\ Inter(rest) = <<" ">> /\ fin = "q"

esc_allowed(seq) == \/ seq = <<"7">>
                    \/ Len(seq) = 2 /\ seq[1] = "(" /\ seq[2] = "B"

-----------------------------------------------------------------------------
(* The filter.  Each handler gives the next filter and what is passed. *)

NewFilter == [state |-> "Ground", seq |-> <<>>, utf8 |-> <<>>]
To(f, state, out) == [f |-> [f EXCEPT !.state = state, !.seq = <<>>], out |-> out]
Stay(f, out) == [f |-> f, out |-> out]

\* A control of the C0 set outside a sequence.
execute(b) == IF b = "ENQ" THEN <<>> ELSE <<b>>
start_escape(f) == [f |-> [f EXCEPT !.state = "Escape", !.seq = <<ESC>>], out |-> <<>>]

\* Mutant of Overflow: a sequence too long is passed as far as it was held.
OverflowPass(f) == To(f, "CsiIgnore", f.seq)
Overflow(f) == To(f, "CsiIgnore", <<>>)
hold(f, b) ==
    IF Len(f.seq) < MAX_SEQ THEN Stay([f EXCEPT !.seq = Append(@, b)], <<>>)
    ELSE IF f.state = "Csi" THEN Overflow(f) ELSE Stay(f, <<>>)

start_utf8(f, b) ==
    IF b \in Leads THEN Stay([f EXCEPT !.utf8 = <<b>>], <<>>) ELSE Stay(f, <<REPLACEMENT>>)
ground(f, b) ==
    IF b = ESC THEN start_escape(f)
    ELSE IF b \in C0 THEN Stay(f, execute(b))
    ELSE IF b \in Ascii THEN Stay(f, <<b>>)
    ELSE start_utf8(f, b)

\* What the states of a sequence have in common: ESC starts over, CAN cancels, a
\* control is executed at once, a byte outside ASCII ends the sequence.
InSequence(f, b, Handle(_, _)) ==
    IF b = ESC THEN start_escape(f)
    ELSE IF b = "CAN" THEN To(f, "Ground", <<>>)
    ELSE IF b \in C0 THEN Stay(f, execute(b))
    ELSE IF b \in Ascii THEN Handle(f, b)
    ELSE ground(To(f, "Ground", <<>>).f, b)

OnEscape(f, b) ==
    IF b = "[" THEN [f |-> [f EXCEPT !.state = "Csi", !.seq = Append(@, b)], out |-> <<>>]
    ELSE IF b \in StringOpeners THEN To(f, "ControlString", <<>>)
    ELSE IF b \in Intermediates
         THEN [f |-> [f EXCEPT !.state = "EscapeIntermediate", !.seq = Append(@, b)], out |-> <<>>]
    ELSE To(f, "Ground", IF b = "7" THEN <<ESC, b>> ELSE <<>>)
escape(f, b) == InSequence(f, b, OnEscape)

OnIntermediate(f, b) ==
    IF b = DEL THEN Stay(f, <<>>)
    ELSE IF b \in Intermediates THEN hold(f, b)
    ELSE To(f, "Ground", IF esc_allowed(Append(Tail(f.seq), b)) THEN Append(f.seq, b) ELSE <<>>)
escape_intermediate(f, b) == InSequence(f, b, OnIntermediate)

OnCsi(f, b) ==
    IF b = DEL THEN Stay(f, <<>>)
    ELSE IF b \in Finals
         THEN To(f, "Ground", IF csi_allowed(SubSeq(f.seq, 3, Len(f.seq)) \o <<b>>)
                              THEN Append(f.seq, b) ELSE <<>>)
    ELSE hold(f, b)
csi(f, b) == InSequence(f, b, OnCsi)

OnCsiIgnore(f, b) == IF b \in Finals THEN To(f, "Ground", <<>>) ELSE Stay(f, <<>>)
csi_ignore(f, b) == InSequence(f, b, OnCsiIgnore)

control_string(f, b) ==
    IF b = ESC THEN start_escape(f)
    ELSE IF b \in {"BEL", "CAN"} THEN To(f, "Ground", <<>>) ELSE Stay(f, <<>>)

Handle(f, b) ==
    CASE f.state = "Ground" -> ground(f, b)
      [] f.state = "Escape" -> escape(f, b)
      [] f.state = "EscapeIntermediate" -> escape_intermediate(f, b)
      [] f.state = "Csi" -> csi(f, b)
      [] f.state = "CsiIgnore" -> csi_ignore(f, b)
      [] f.state = "ControlString" -> control_string(f, b)

\* std's from_utf8 on a character of the model: e0 9b is overlong.
Want(u) == IF u[1] = "c2" THEN 2 ELSE 3
Malformed(u) == u[1] = "e0" /\ u[2] = "9b"
IsC1(u) == u = <<"c2", "9b">>
\* A character whose bytes are complete.
finish_utf8(u) == IF Malformed(u) THEN <<REPLACEMENT>> ELSE IF IsC1(u) THEN <<>> ELSE u

push(f, b) ==
    IF f.utf8 = <<>> THEN Handle(f, b)
    ELSE LET u == Append(f.utf8, b) IN
         IF b \in Conts
         THEN IF Len(u) = Want(u) THEN Stay([f EXCEPT !.utf8 = <<>>], finish_utf8(u))
              ELSE Stay([f EXCEPT !.utf8 = u], <<>>)
         ELSE LET h == Handle([f EXCEPT !.utf8 = <<>>], b)
              IN  [h EXCEPT !.out = <<REPLACEMENT>> \o @]

-----------------------------------------------------------------------------
(* Terminals (external): [state, seq, utf8] and what they act on. *)

NewTerminal == [state |-> "ground", seq |-> <<>>, utf8 |-> <<>>]
TGo(t, state, seq, did) == [t |-> [state |-> state, seq |-> seq, utf8 |-> <<>>], did |-> did]
\* What comes before the final byte; past what the filter holds, only that it is
\* too long.
TooLong == [i \in 1 .. MAX_SEQ |-> DEL]
Grow(t, b) == IF Len(t.seq) < MAX_SEQ - 2 THEN Append(t.seq, b) ELSE TooLong

\* The character of well-formed bytes.
Char(u) == IF u = <<"c2", "a9">> THEN "u+a9" ELSE IF u[3] = "9b" THEN "u+a5b" ELSE "u+a69"

\* A byte of ASCII or a control, or a whole character.
Feed1(t, b) ==
    LET ground1 == IF b \in C0 THEN TGo(t, "ground", <<>>, <<<<"c0", b>>>>)
                   ELSE TGo(t, "ground", <<>>, <<<<"char", b>>>>) IN
    IF b = ESC THEN TGo(t, "escape", <<>>, <<>>)
    ELSE IF t.state = "ground" THEN ground1
    ELSE IF t.state = "string" THEN IF b \in {"BEL", "CAN"} THEN TGo(t, "ground", <<>>, <<<<"string">>>>)
                                    ELSE TGo(t, "string", <<>>, <<>>)
    ELSE IF b = "CAN" THEN TGo(t, "ground", <<>>, <<>>)
    ELSE IF b \in C0 THEN TGo(t, t.state, t.seq, <<<<"c0", b>>>>)
    ELSE IF b \notin Ascii THEN ground1
    ELSE IF t.state = "escape"
         THEN IF t.seq = <<>> /\ b = "[" THEN TGo(t, "csi", <<>>, <<>>)
              ELSE IF t.seq = <<>> /\ b \in StringOpeners THEN TGo(t, "string", <<>>, <<>>)
              ELSE IF b = DEL /\ t.seq # <<>> THEN TGo(t, "escape", t.seq, <<>>)
              ELSE IF b \in Intermediates THEN TGo(t, "escape", Grow(t, b), <<>>)
              ELSE TGo(t, "ground", <<>>, <<<<"esc", Append(t.seq, b)>>>>)
    ELSE IF b = DEL THEN TGo(t, "csi", t.seq, <<>>)
    ELSE IF b \in Finals THEN TGo(t, "ground", <<>>, <<<<"csi", Append(t.seq, b)>>>>)
    ELSE TGo(t, "csi", Grow(t, b), <<>>)

Then1(r, b) == LET n == Feed1(r.t, b) IN [n EXCEPT !.did = r.did \o @]
\* UTF-8, in ground: a character cut short or malformed is a replacement, and
\* the C1 CSI starts a control sequence.
Feed(r, b) ==
    LET t == r.t  u == Append(t.utf8, b) IN
    IF t.utf8 # <<>> /\ b \in Conts
    THEN IF Len(u) < Want(u) THEN [r EXCEPT !.t.utf8 = u]
         ELSE IF IsC1(u) THEN [t |-> TGo(t, "csi", <<>>, <<>>).t, did |-> Append(r.did, <<"c1">>)]
         ELSE Then1([r EXCEPT !.t.utf8 = <<>>], IF Malformed(u) THEN REPLACEMENT ELSE Char(u))
    ELSE LET cut == IF t.utf8 = <<>> THEN r ELSE Then1([r EXCEPT !.t.utf8 = <<>>], REPLACEMENT) IN
         IF cut.t.state # "string" /\ b \in Leads
         THEN [t |-> [NewTerminal EXCEPT !.utf8 = <<b>>], did |-> cut.did]
         ELSE IF cut.t.state # "string" /\ b \in Conts \cup {"ff"}
         THEN Then1([cut EXCEPT !.t = NewTerminal], REPLACEMENT)
         ELSE Then1(cut, b)

\* What the ideal terminal does of that: it knows no C1, answers nothing, reads
\* no string.
Console(act) ==
    CASE act[1] = "char" -> TRUE
      [] act[1] = "c0" -> act[2] # "ENQ"
      [] act[1] = "esc" -> Len(act[2]) < MAX_SEQ /\ esc_allowed(act[2])
      [] act[1] = "csi" -> Len(act[2]) < MAX_SEQ /\ csi_allowed(act[2])
      [] OTHER -> FALSE
NoC1(r) == IF r.did # <<>> /\ Last(r.did) = <<"c1">> THEN [r EXCEPT !.t = NewTerminal] ELSE r

-----------------------------------------------------------------------------
Init == /\ filter = NewFilter /\ terminal = NewTerminal /\ ideal = NewTerminal
        /\ acts = [real |-> <<>>, ideal |-> <<>>]

\* filter, one byte of a write: how the guest's writes are cut makes no difference.
Push(b) ==
    LET p == push(filter, b)
        shown == FoldLeft(Feed, [t |-> terminal, did |-> <<>>], p.out)
        wanted == NoC1(Feed([t |-> ideal, did |-> <<>>], b))
    IN  /\ filter' = p.f
        /\ terminal' = shown.t
        /\ ideal' = wanted.t
        /\ acts' = [real |-> shown.did, ideal |-> SelectSeq(wanted.did, Console)]

Next == \E b \in Bytes : Push(b)
Spec == Init /\ [][Next]_vars

-----------------------------------------------------------------------------
(* Properties. *)

\* "the terminal parses every byte it receives from its ground state": between
\* two bytes of the guest the terminal is never inside a sequence, a string or a
\* character.
TerminalInGround == terminal = NewTerminal

\* What would make the terminal answer, act on a string, report the mouse or
\* erase the operator's scrollback.
Harmful(act) ==
    \/ act[1] \in {"string", "c1"} \/ act = <<"c0", "ENQ">>
    \/ act[1] = "csi" /\ \/ Last(act[2]) = "x"
                         \/ Last(act[2]) = "J" /\ "3" \in Range(act[2])
                         \/ Last(act[2]) = "h" /\ Head(act[2]) = "?" /\ <<"9">> \in Fields(SubSeq(act[2], 2, Len(act[2]) - 1))
\* Nothing the guest writes makes the terminal do any of that, however it splits,
\* interrupts and nests its sequences.
NothingHarmful == \A i \in DOMAIN acts.real : ~Harmful(acts.real[i])

\* The operator sees what a console without those functions would show, byte for
\* byte: nothing else is lost and nothing is added.
ShowsTheConsole == acts.real = acts.ideal
=============================================================================
