------------------------------- MODULE Relay -------------------------------
(***************************************************************************)
(* internal/proxy/wsrelay.go: the two pumps of an upgraded connection.     *)
(* Each reads a frame header, forwards header and payload as they were,    *)
(* and only then tells the hooks about the message, if one is complete.    *)
(* The pump that ends first closes both connections, which ends the other. *)
(***************************************************************************)
EXTENDS Integers, Sequences, SequencesExt

CONSTANTS MaxFrames   \* frames the two peers send, together

RelayAssumption == MaxFrames \in Nat

VARIABLES
    given,      \* frames each peer has sent
    hungUp,     \* the peer closed its end
    pump,       \* where each pump stands: frame it is at, and how it ended
    delivered,  \* what went out to the other peer, piece by piece
    closed,     \* closeBoth was called
    emitted     \* messages the hooks were told of, wsRelay.seq

relayVars == <<given, hungUp, pump, delivered, closed, emitted>>

\* A direction is named for the peer that sends in it.
Dirs == {"client", "server"}

\* A frame completes a message, is a part of one, is one the assembler refuses
\* once it has gone by, or has a header the parser refuses.
Kinds == {"message", "part", "disorder", "refused"}

\* Of each frame the header and then the payload.
Pieces(frames) ==
    [k \in 1 .. 2 * Len(frames) |->
        <<(k + 1) \div 2, IF k % 2 = 1 THEN "header" ELSE "payload">>]

RelayInit ==
    /\ given = [d \in Dirs |-> <<>>]
    /\ hungUp = [d \in Dirs |-> FALSE]
    /\ pump = [d \in Dirs |-> [at |-> "read", n |-> 1, err |-> FALSE]]
    /\ delivered = [d \in Dirs |-> <<>>]
    /\ closed = FALSE
    /\ emitted = 0

Has(d) == pump[d].n <= Len(given[d])

Kind(d) == given[d][pump[d].n]

Goto(d, at) == pump' = [pump EXCEPT ![d].at = at]

\* The pump is done with its frame.
Advance(d, at) == pump' = [pump EXCEPT ![d].at = at, ![d].n = @ + 1]

-----------------------------------------------------------------------------
(* The peers.                                                              *)

SendFrame(d, kind) ==
    /\ ~hungUp[d] /\ ~closed
    /\ Len(given["client"]) + Len(given["server"]) < MaxFrames
    /\ given' = [given EXCEPT ![d] = Append(@, kind)]
    /\ UNCHANGED <<hungUp, pump, delivered, closed, emitted>>

HangUp(d) ==
    /\ ~hungUp[d]
    /\ hungUp' = [hungUp EXCEPT ![d] = TRUE]
    /\ UNCHANGED <<given, pump, delivered, closed, emitted>>

-----------------------------------------------------------------------------
(* wsRelay.pump.                                                           *)

\* A header is read.  One that is refused has left the reader all the same.
ReadHeader(d) ==
    /\ pump[d].at = "read" /\ ~closed /\ Has(d)
    /\ IF Kind(d) = "refused"
       THEN pump' = [pump EXCEPT ![d].at = "copyPayload", ![d].err = TRUE]
       ELSE Goto(d, "forward")
    /\ UNCHANGED <<given, hungUp, delivered, closed, emitted>>

\* Nothing more to read: the peer hung up, or both ends were closed.
ReadEnds(d) ==
    /\ pump[d].at = "read"
    /\ closed \/ (hungUp[d] /\ ~Has(d))
    /\ Goto(d, "leave")
    /\ UNCHANGED <<given, hungUp, delivered, closed, emitted>>

\* Broken: the assembler is asked before the frame has gone out.
ForwardInOrder(d) ==
    /\ pump[d].at = "forward" /\ ~closed
    /\ IF Kind(d) = "disorder"
       THEN Advance(d, "copy") /\ UNCHANGED delivered
       ELSE /\ delivered' = [delivered EXCEPT ![d] =
                  @ \o <<<<pump[d].n, "header">>, <<pump[d].n, "payload">>>>]
            /\ IF Kind(d) = "message" THEN Goto(d, "emit") ELSE Advance(d, "read")
    /\ UNCHANGED <<given, hungUp, closed, emitted>>

\* Header and payload go out in one write; the assembler sees the frame after
\* that.
Forward(d) ==
    /\ pump[d].at = "forward" /\ ~closed
    /\ delivered' = [delivered EXCEPT ![d] =
                        @ \o <<<<pump[d].n, "header">>, <<pump[d].n, "payload">>>>]
    /\ CASE Kind(d) = "message" -> Goto(d, "emit")
         [] Kind(d) = "part" -> Advance(d, "read")
         [] Kind(d) = "disorder" ->
               pump' = [pump EXCEPT ![d] = [at |-> "copy", n |-> @.n + 1, err |-> TRUE]]
    /\ UNCHANGED <<given, hungUp, closed, emitted>>

\* A write to a connection that was closed, or whose peer has gone.
WriteFails(d) ==
    /\ pump[d].at \in {"forward", "copyPayload", "copy"}
    /\ closed \/ \E e \in Dirs \ {d} : hungUp[e]
    /\ Goto(d, "leave")
    /\ UNCHANGED <<given, hungUp, delivered, closed, emitted>>

\* The plain copy a direction falls back to, from where its reader stands.
CopyPayload(d) ==
    /\ pump[d].at = "copyPayload" /\ ~closed
    /\ delivered' = [delivered EXCEPT ![d] = Append(@, <<pump[d].n, "payload">>)]
    /\ Advance(d, "copy")
    /\ UNCHANGED <<given, hungUp, closed, emitted>>

CopyFrame(d) ==
    /\ pump[d].at = "copy" /\ ~closed /\ Has(d)
    /\ delivered' = [delivered EXCEPT ![d] =
                        @ \o <<<<pump[d].n, "header">>, <<pump[d].n, "payload">>>>]
    /\ Advance(d, "copy")
    /\ UNCHANGED <<given, hungUp, closed, emitted>>

CopyEnds(d) ==
    /\ pump[d].at = "copy"
    /\ closed \/ (hungUp[d] /\ ~Has(d))
    /\ Goto(d, "leave")
    /\ UNCHANGED <<given, hungUp, delivered, closed, emitted>>

\* The hooks are told; each answers at once.
Emit(d) ==
    /\ pump[d].at = "emit"
    /\ emitted' = emitted + 1
    /\ Advance(d, "read")
    /\ UNCHANGED <<given, hungUp, delivered, closed>>

\* closeBoth, once, when the pump has returned.
Leave(d) ==
    /\ pump[d].at = "leave"
    /\ closed' = TRUE
    /\ Goto(d, "ended")
    /\ UNCHANGED <<given, hungUp, delivered, emitted>>

\* Broken: run returns with the first of the pumps.
ReturnedEarly == \E d \in Dirs : pump[d].at = "ended"

\* wg.Wait: run returns, with an error if a pump had one that was not the end
\* of its connection.
Returned == \A d \in Dirs : pump[d].at = "ended"

Peer(d) == HangUp(d) \/ \E k \in Kinds : SendFrame(d, k)

\* Everything a pump does by itself, except to tell the hooks.
Pump(d) ==
    \/ ReadHeader(d) \/ ReadEnds(d) \/ Forward(d) \/ WriteFails(d)
    \/ CopyPayload(d) \/ CopyFrame(d) \/ CopyEnds(d) \/ Leave(d)

-----------------------------------------------------------------------------
(* Properties.                                                             *)

PumpSteps == {"read", "forward", "copyPayload", "copy", "emit", "leave", "ended"}

Pumps == [at : PumpSteps, n : Nat \ {0}, err : BOOLEAN]

Piece == (Nat \ {0}) \X {"header", "payload"}

RelayTypeOK ==
    /\ given \in [Dirs -> Seq(Kinds)]
    /\ hungUp \in [Dirs -> BOOLEAN]
    /\ pump \in [Dirs -> Pumps]
    /\ delivered \in [Dirs -> Seq(Piece)]
    /\ closed \in BOOLEAN
    /\ emitted \in Nat

\* What arrives is what was sent, in order and without a gap, up to where the
\* relay ended; a frame whose header the parser refuses is the exception
\* (pump: "forwarding it as it was").
RelayIsFaithful ==
    \A d \in Dirs :
       (\A n \in 1 .. Len(given[d]) : given[d][n] # "refused")
          => IsPrefix(delivered[d], Pieces(given[d]))

\* The same without the exception: "A frame the parser refuses is not the
\* proxy's to judge: the direction degrades to a plain copy so the peers keep
\* talking".
PeersKeepTalking ==
    \A d \in Dirs : IsPrefix(delivered[d], Pieces(given[d]))
=============================================================================
