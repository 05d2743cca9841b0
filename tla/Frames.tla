------------------------------- MODULE Frames -------------------------------
(*****************************************************************************)
(* WebSocket framing in one direction of a relayed connection: headers are   *)
(* read whatever length form the sender chose, fragments are put back        *)
(* together around the control frames between them, and of a long payload    *)
(* a prefix is kept.                                                         *)
(*                                                                           *)
(* A payload is the number of its frame and how much of it was kept.         *)
(*****************************************************************************)
EXTENDS Integers, Sequences, FiniteSets

CONSTANTS
    Sent,       \* frames a sender may send
    Keep,       \* the limit of the assembler, in bytes
    MaxFrames

VARIABLES
    frames,     \* what the sender has sent
    asm,        \* the Assembler of the pump
    copying,    \* the direction has fallen back to a plain copy
    out         \* the messages that were announced

framesVars == <<frames, asm, copying, out>>

MaxControlPayload == 125
Data == {"text", "binary"}
Control == {"close", "ping"}
Opcodes == Data \cup Control \cup {"continuation", "reserved"}

Closed == [open |-> FALSE, op |-> "text", kept |-> <<>>, size |-> 0, frames |-> 0,
           truncated |-> FALSE, compressed |-> FALSE]

(* The length in the header: seven bits, or one of the two longer forms,     *)
(* which a sender need not choose as short as it could.                      *)
Forms(n) ==
    {[seven |-> 127, ext |-> n]}
        \cup (IF n <= 65535 THEN {[seven |-> 126, ext |-> n]} ELSE {})
        \cup (IF n <= 125 THEN {[seven |-> n, ext |-> 0]} ELSE {})

FramesAssumption ==
    /\ Keep \in Nat /\ MaxFrames \in Nat
    /\ Sent \subseteq [op : Opcodes, fin : BOOLEAN, rsv1 : BOOLEAN, bytes : Nat,
                       length : [seven : Nat, ext : Nat]]
    /\ \A f \in Sent : f.length \in Forms(f.bytes)

(* The sum of the first n of some numbers.                                   *)
SumOf(numbers, n) ==
    LET sum[k \in 0 .. n] == IF k = 0 THEN 0 ELSE sum[k - 1] + numbers[k] IN sum[n]

FramesInit ==
    /\ frames = <<>>
    /\ asm = Closed
    /\ copying = FALSE
    /\ out = <<>>

-----------------------------------------------------------------------------
(* The shortest form, for a frame of the proxy's own.                        *)
Encode(n) ==
    IF n <= 125 THEN [seven |-> n, ext |-> 0]
    ELSE [seven |-> IF n <= 65535 THEN 126 ELSE 127, ext |-> n]

ReadLength(w) == IF w.seven \in {126, 127} THEN w.ext ELSE w.seven

(* Broken: a control frame of the length that is just allowed is refused.    *)
RefusedLongest(f) ==
    \/ f.op = "reserved"
    \/ f.op \in Control /\ (~f.fin \/ ReadLength(f.length) >= MaxControlPayload)

Refused(f) ==
    \/ f.op = "reserved"
    \/ f.op \in Control /\ (~f.fin \/ ReadLength(f.length) > MaxControlPayload)

(* Begin                                                                     *)
Disorder(f) == IF f.op = "continuation" THEN ~asm.open ELSE asm.open

Begun(f) ==
    IF f.op = "continuation" THEN asm
    ELSE [Closed EXCEPT !.open = TRUE, !.op = f.op, !.compressed = f.rsv1]

(* Broken: what a frame brings is cut at the limit, not what the message has.*)
AppendedEach(a, n) ==
    LET take == IF Keep < n THEN Keep ELSE n
    IN [a EXCEPT !.kept = IF take > 0 THEN Append(@, <<Len(frames) + 1, take>>) ELSE @,
                 !.truncated = @ \/ take < n,
                 !.size = @ + n,
                 !.frames = @ + 1]

KeptBy(a, n) == SumOf([i \in 1 .. Len(a.kept) |-> a.kept[i][2]], n)
KeptOf(a) == KeptBy(a, Len(a.kept))

(* Append: of the payload the pump kept what the limit leaves of one frame,  *)
(* the assembler takes of that what it has room for.                         *)
Appended(a, n) ==
    LET prefix == IF Keep < n THEN Keep ELSE n
        room == Keep - KeptOf(a)
        take == IF room < prefix THEN room ELSE prefix
    IN [a EXCEPT !.kept = IF take > 0 THEN Append(@, <<Len(frames) + 1, take>>) ELSE @,
                 !.truncated = @ \/ take < n,
                 !.size = @ + n,
                 !.frames = @ + 1]

Completed(a) ==
    [op |-> a.op, kept |-> a.kept, size |-> a.size, frames |-> a.frames,
     truncated |-> a.truncated, compressed |-> a.compressed]

ControlMessage(f) ==
    LET n == ReadLength(f.length)
        take == IF Keep < n THEN Keep ELSE n
    IN [op |-> f.op, kept |-> IF take > 0 THEN <<<<Len(frames) + 1, take>>>> ELSE <<>>,
        size |-> n, frames |-> 1, truncated |-> FALSE, compressed |-> FALSE]

(* One round of the pump.                                                    *)
Frame(f) ==
    /\ Len(frames) < MaxFrames
    /\ frames' = Append(frames, f)
    /\ IF copying \/ Refused(f)
       THEN copying' = TRUE /\ UNCHANGED <<asm, out>>
       ELSE IF f.op \in Control
       THEN out' = Append(out, ControlMessage(f)) /\ UNCHANGED <<asm, copying>>
       ELSE IF Disorder(f)
       THEN copying' = TRUE /\ UNCHANGED <<asm, out>>
       ELSE LET a == Appended(Begun(f), ReadLength(f.length)) IN
            /\ asm' = IF f.fin THEN Closed ELSE a
            /\ out' = IF f.fin THEN Append(out, Completed(a)) ELSE out
            /\ UNCHANGED copying

FramesNext == \E f \in Sent : Frame(f)

FramesSpec == FramesInit /\ [][FramesNext]_framesVars

-----------------------------------------------------------------------------
(* The standard's view of frames fs: the fragments of the message that is    *)
(* open behind the first i of them, those frames that a receiver accepts, and*)
(* the ones with which a message is complete.                                *)
IsData(f) == f.op \notin Control
Fragments(fs, i) ==
    {j \in 1 .. i : IsData(fs[j]) /\ \A k \in j .. i : IsData(fs[k]) => ~fs[k].fin}
Sound(fs, i) ==
    LET f == fs[i] IN
    CASE f.op = "reserved" -> FALSE
      [] f.op \in Control -> f.fin /\ f.bytes <= MaxControlPayload
      [] OTHER -> (f.op = "continuation") <=> Fragments(fs, i - 1) # {}
Accepted(fs) == {i \in 1 .. Len(fs) : \A j \in 1 .. i : Sound(fs, j)}
Endings(fs) == {i \in Accepted(fs) : fs[i].fin}

(* The frames of the message that ends with frame i, the bytes of data in the*)
(* first i frames, and those of the message.                                 *)
Parts(fs, i) == IF IsData(fs[i]) THEN Fragments(fs, i - 1) \cup {i} ELSE {i}
DataBytes(fs, i) ==
    SumOf([j \in 1 .. Len(fs) |-> IF IsData(fs[j]) THEN fs[j].bytes ELSE 0], i)
FirstPart(S) == CHOOSE j \in S : \A k \in S : j <= k
Bytes(fs, i) ==
    IF IsData(fs[i]) THEN DataBytes(fs, i) - DataBytes(fs, FirstPart(Parts(fs, i)) - 1)
                     ELSE fs[i].bytes

(* A message of so many bytes in these frames has their number, and of their *)
(* bytes as many as are kept: each part begins where the one before it ends, *)
(* counted from `before`.                                                    *)
Carries(fs, m, parts, before, bytes) ==
    /\ m.size = bytes
    /\ m.frames = Cardinality(parts)
    /\ KeptOf(m) = IF Keep < bytes THEN Keep ELSE bytes
    /\ \A p \in 1 .. Len(m.kept) :
          /\ m.kept[p][1] \in parts
          /\ DataBytes(fs, m.kept[p][1] - 1) - before = KeptBy(m, p - 1)

(* And it says what its first frame says, and whether that is all of it.     *)
Tells(fs, m, parts, bytes) ==
    LET first == fs[FirstPart(parts)] IN
    /\ m.op = first.op
    /\ m.compressed = (first.op \in Data /\ first.rsv1)
    /\ first.op \in Data => m.truncated = (Keep < bytes)
    /\ Carries(fs, m, parts, DataBytes(fs, FirstPart(parts) - 1), bytes)

(* The messages announced are those of the accepted frames, in the order of  *)
(* their last frames: each with its first frame's opcode and compression,    *)
(* its whole size, and as much of its payload as is kept, from its start on  *)
(* and flagged when that is not all.                                         *)
MessagesAreWhole ==
    /\ Len(out) = Cardinality(Endings(frames))
    /\ \A i \in Endings(frames) :
          Tells(frames, out[Cardinality({j \in Endings(frames) : j <= i})],
                Parts(frames, i), Bytes(frames, i))
    /\ \A f \in Sent : ReadLength(Encode(f.bytes)) = f.bytes
=============================================================================
