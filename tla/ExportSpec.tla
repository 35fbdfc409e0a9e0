----------------------------- MODULE ExportSpec -----------------------------
(***************************************************************************)
(* What --fs and --disk take: a list of key=value fields, in any order,    *)
(* read into an export or a disk.  (config.rs)                             *)
(*                                                                         *)
(* A spec is read field by field, as key_values does, and then given its   *)
(* meaning, as FsSpec::parse and DiskConfig::parse do.  A field is a key   *)
(* with its text; the texts of a key are a few of each class the code      *)
(* tells apart.                                                            *)
(***************************************************************************)
EXTENDS Naturals, Sequences, FiniteSets, SequencesExt

CONSTANTS MaxFields,    \* bound on the fields of a spec
          EmptyPaths    \* whether a path or a socket may be given as the empty text

VARIABLES flag,      \* which flag the spec belongs to
          fields,    \* the fields read so far
          result     \* Reading, Refused, or what the spec describes

vars == <<flag, fields, result>>

Reading == [kind |-> "reading"]
Refused == [kind |-> "refused"]

\* The empty text, a short one, and one longer than the device's field.
Names == {"", "short", "long"}
Places == {"place"} \cup (IF EmptyPaths THEN {""} ELSE {})
Counts == {"0", "1", "6", "65536", "x"}

Texts(key) ==
    CASE key \in {"path", "socket"} -> Places
      [] key = "tag" -> Names
      [] key = "serial" -> Names \cup {"control"}
      [] key = "readonly" -> {"on", "off", "maybe"}
      [] key = "cache" -> {"auto", "always", "none", "bogus"}
      [] OTHER -> Counts

FsKeys == {"tag", "socket", "num_queues", "queue_size", "path", "readonly", "cache", "uid", "gid"}
DiskKeys == {"path", "readonly", "serial"}
Allowed == IF flag = "fs" THEN FsKeys ELSE DiskKeys

\* A field that is not key=value has no key; "other" is a key of neither flag.
Field == {[key |-> "", text |-> "short"], [key |-> "other", text |-> "short"]}
         \cup UNION {{[key |-> k, text |-> t] : t \in Texts(k)} : k \in FsKeys \cup DiskKeys}

-----------------------------------------------------------------------------
(* Values. *)

\* str::parse of an unsigned number, whose largest value depends on its type.
Number(text) == CASE text = "0" -> 0 [] text = "1" -> 1 [] text = "6" -> 6
                  [] text = "65536" -> 65536 [] OTHER -> 1000000
Parses(text, max) == Number(text) <= max
U16 == 65535
U32 == 100000

PowerOfTwo(n) == \E k \in 0..16 : n = 2^k

\* A tag the config-space field can carry.
TagFits(tag) == tag \notin {"", "long"}

\* FsConfig::validate.
Validate(tag, queues, size) ==
    TagFits(tag) /\ queues # 0 /\ PowerOfTwo(size) /\ size <= 32768

\* check_serial.
SerialFits(serial) == serial \notin {"", "long", "control"}

-----------------------------------------------------------------------------
(* The meaning of the fields. *)

\* The text of a key's field, or absent when the spec has none.
Get(key, absent) == LET at == SelectInSeq(fields, LAMBDA f : f.key = key)
                    IN IF at = 0 THEN absent ELSE fields[at].text
Given(key) == \E i \in DOMAIN fields : fields[i].key = key
GivenText(key) == Given(key) /\ Get(key, "") # ""

Queues == IF Given("num_queues") THEN Number(Get("num_queues", "")) ELSE 1
QueueSize == IF Given("queue_size") THEN Number(Get("queue_size", "")) ELSE 1024

SocketExport ==
    IF \/ \E k \in {"readonly", "cache", "uid", "gid"} : Given(k)
       \/ ~Parses(Get("num_queues", "1"), U32) \/ ~Parses(Get("queue_size", "1"), U16)
       \/ ~Validate(Get("tag", ""), Queues, QueueSize)
    THEN Refused
    ELSE [kind |-> "socket", tag |-> Get("tag", ""), queues |-> Queues, size |-> QueueSize]

\* Mutant of OtherForm: a key of the socket form is ignored on a directory.
NeverOtherForm == FALSE

OtherForm == Given("num_queues") \/ Given("queue_size")

PathExport ==
    IF \/ OtherForm
       \/ Get("readonly", "off") \notin {"on", "off"}
       \/ Get("cache", "auto") \notin {"auto", "always", "none"}
       \/ ~Parses(Get("uid", "0"), U32) \/ ~Parses(Get("gid", "0"), U32)
    THEN Refused
    ELSE [kind |-> "share", tag |-> Get("tag", ""), writable |-> Get("readonly", "off") = "off",
          cache |-> Get("cache", "auto"),
          uid |-> Number(Get("uid", "0")), gid |-> Number(Get("gid", "0"))]

\* The rest of FsSpec::parse, once the fields are read.
FsParse ==
    IF ~Given("tag") \/ ~TagFits(Get("tag", "")) \/ GivenText("path") = GivenText("socket")
    THEN Refused
    ELSE IF GivenText("socket") THEN SocketExport ELSE PathExport

\* A disk that is no more than a path is writable and has the serial of its position.
BareDisk == [kind |-> "disk", writable |-> TRUE, serial |-> "default"]

\* The rest of DiskConfig::parse, for a spec that starts with path=.
DiskParse ==
    IF \/ ~GivenText("path")
       \/ Get("readonly", "off") \notin {"on", "off"}
       \/ Given("serial") /\ ~SerialFits(Get("serial", ""))
    THEN Refused
    ELSE [kind |-> "disk", writable |-> Get("readonly", "off") = "off",
          serial |-> Get("serial", "default")]

-----------------------------------------------------------------------------
(* Reading. *)

Init == flag \in {"fs", "disk"} /\ fields = <<>> /\ result = Reading

\* One field of key_values: one that is not key=value, unknown or given twice ends the spec.
ReadField(f) ==
    /\ result = Reading /\ Len(fields) < MaxFields
    /\ flag = "disk" /\ fields = <<>> => f.key = "path"
    /\ fields' = Append(fields, f)
    /\ result' = IF f.key \notin Allowed \/ Given(f.key) THEN Refused ELSE Reading
    /\ UNCHANGED flag

\* A --disk that does not start with path= is a path as it stands, whatever it holds.
ReadBare(f) ==
    /\ result = Reading /\ flag = "disk" /\ fields = <<>> /\ f.key # "path"
    /\ fields' = <<f>> /\ result' = BareDisk
    /\ UNCHANGED flag

\* The spec ends.
Parse == /\ result = Reading /\ fields # <<>>
         /\ result' = IF flag = "fs" THEN FsParse ELSE DiskParse
         /\ UNCHANGED <<flag, fields>>

\* An empty --disk is refused.
EmptyDisk == /\ result = Reading /\ flag = "disk" /\ fields = <<>>
             /\ result' = Refused /\ UNCHANGED <<flag, fields>>

Read == \E f \in Field : ReadField(f) \/ ReadBare(f)
Over == result # Reading /\ UNCHANGED vars
Next == Read \/ Parse \/ EmptyDisk \/ Over
Spec == Init /\ [][Next]_vars

-----------------------------------------------------------------------------
(* The syntax the flags' errors quote, as a set of fields. *)

Said == {fields[i] : i \in DOMAIN fields}
KeysSaid == {f.key : f \in Said}

\* Each key once, the form's own keys and no other, and a value its key can take.
Form(needed, optional) == /\ Len(fields) = Cardinality(KeysSaid)
                          /\ needed \subseteq KeysSaid /\ KeysSaid \subseteq needed \cup optional
ValueOk(f) == CASE f.key \in {"path", "socket"} -> f.text # ""
                [] f.key \in {"tag", "serial"} -> f.text = "short"
                [] f.key = "readonly" -> f.text # "maybe"
                [] f.key = "cache" -> f.text # "bogus"
                [] f.key = "num_queues" -> f.text \notin {"0", "x"}
                [] f.key = "queue_size" -> f.text = "1"
                [] f.key \in {"uid", "gid"} -> f.text # "x"
                [] OTHER -> FALSE
FsSyntax == /\ \/ Form({"tag", "socket"}, {"num_queues", "queue_size"})
               \/ Form({"tag", "path"}, {"readonly", "cache", "uid", "gid"})
            /\ \A f \in Said : ValueOk(f)
DiskSyntax == \/ fields # <<>> /\ fields[1].key # "path"
              \/ Form({"path"}, {"readonly", "serial"}) /\ \A f \in Said : ValueOk(f)

\* A spec is taken exactly when it is one of the forms the flag's error quotes: whatever the order
\* of its fields, a key of the other form is refused and not ignored.  (FsSpec::parse,
\* DiskConfig::parse, key_values)
TakenIsTheSyntax ==
    result # Reading => ((result # Refused) <=> (IF flag = "fs" THEN FsSyntax ELSE DiskSyntax))
=============================================================================
