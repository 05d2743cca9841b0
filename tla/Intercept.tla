----------------------------- MODULE Intercept -----------------------------
(***************************************************************************)
(* internal/domain/intercept: exchanges held at the proxy until somebody   *)
(* answers.  Three kinds of goroutine meet here.                           *)
(*                                                                         *)
(*   - The hook of an exchange reads the open project, decides to hold,    *)
(*     enters itself in the queue and waits on an unbuffered channel.  It  *)
(*     is also woken when its client gives up.                             *)
(*   - Console operations look an exchange up in the queue and offer it an *)
(*     answer; an edit first claims the item and may have to read its body.*)
(*   - The project watcher, called under the project lock, offers every    *)
(*     waiting exchange its own item back when holding is switched off.    *)
(*                                                                         *)
(* The open project and its announcements are those of ActiveFeed.  The    *)
(* process does not end here: nothing that is held outlives it.            *)
(***************************************************************************)
EXTENDS ActiveFeed, ExchangeVerdicts

CONSTANTS
    Users,       \* console operations that may be in flight together
    Ids          \* project ids

ASSUME SnapshotAssumption == Snapshots \subseteq [id : Ids, on : SUBSET Sides]

ASSUME NobodyAssumption == None \notin Exchanges

VARIABLES
    pc,          \* where the hook goroutine of each exchange stands
    side,        \* which of its two hooks it is in
    snap,        \* the snapshot that hook read
    override,    \* responseKey in the context: hold or pass this response
    queue,       \* Service.requests and Service.responses
    claimed,     \* pending.claimed
    done,        \* pending.done is closed
    drained,     \* the item's body reader has been read and not yet put back
    op,          \* what each console operation is doing
    release,     \* where onProjectChange stands
    astray       \* history: held by a hook that had read an outdated project

hookVars == <<pc, side, snap, override, queue, done, astray>>
vars == <<running, active, notice, verdict, pc, side, snap, override, queue,
          claimed, done, drained, op, release, astray>>

HookPoints == {"arriving", "admitted", "held", "decided", "closed", "finished"}

Overrides == {"unset", "hold", "pass"}

OpIdle == [at |-> "idle", what |-> "none", side |-> "request", x |-> None,
           then |-> "unset"]

\* An operation that is under way has an item, and knows what to do with it.
Ops ==
    {OpIdle}
    \cup [at : {"found"}, what : {"plain", "edit"}, side : Sides, x : Exchanges,
          then : Overrides]
    \cup [at : {"building", "draining", "built"}, what : {"edit"}, side : Sides,
          x : Exchanges, then : Overrides]
    \cup [at : {"offering"}, what : {"plain", "edit", "drop"}, side : Sides,
          x : Exchanges, then : Overrides]

ReleaseIdle == [at |-> "idle", side |-> "request", todo |-> {}, now |-> None]

Releases ==
    [at : {"idle", "collect", "over"}, side : Sides, todo : {{}}, now : {None}]
    \cup [at : {"pick"}, side : Sides, todo : SUBSET Exchanges, now : {None}]
    \cup [at : {"offer"}, side : Sides, todo : SUBSET Exchanges, now : Exchanges]

Holds(snapshot, s) == snapshot # None /\ s \in snapshot.on

\* The item of x is in the select of hook s.
Held(s, x) == pc[x] = "held" /\ side[x] = s

\* The open project is the one whose snapshot the hook read, and still
\* holds what hook s holds.
StillHolds(s, x) ==
    /\ Holds(active, s)
    /\ snap[x] # None
    /\ active.id = snap[x].id

Init ==
    /\ FeedInit
    /\ VerdictInit
    /\ pc = [x \in Exchanges |-> "arriving"]
    /\ side = [x \in Exchanges |-> "request"]
    /\ snap = [x \in Exchanges |-> None]
    /\ override = [x \in Exchanges |-> "unset"]
    /\ queue = [s \in Sides |-> {}]
    /\ claimed = [s \in Sides |-> {}]
    /\ done = [s \in Sides |-> {}]
    /\ drained = [s \in Sides |-> {}]
    /\ op = [u \in Users |-> OpIdle]
    /\ release = ReleaseIdle
    /\ astray = {}

-----------------------------------------------------------------------------
(* The hook.                                                               *)

\* The one verdict of hook s of x.
Give(s, x, v) == verdict' = [verdict EXCEPT ![s][x] = v]

\* Hook s of x returns with verdict v: the proxy goes on to the upstream and
\* then to the response hook, or the exchange is over.
GoOn(x, s, v) ==
    IF s = "request" /\ v \in Onward
        THEN /\ pc' = [pc EXCEPT ![x] = "arriving"]
             /\ side' = [side EXCEPT ![x] = "response"]
        ELSE /\ pc' = [pc EXCEPT ![x] = "finished"]
             /\ UNCHANGED side

\* A response is held by the project's switch or by what the console asked
\* for when it forwarded the request.
Wanted(x) ==
    IF side[x] = "request"
        THEN Holds(active, "request")
        ELSE /\ active # None
             /\ override[x] # "pass"
             /\ override[x] = "hold" \/ Holds(active, "response")

\* Nothing is held: no project, switched off, and for what would be held a
\* truncated body, a stream or a filter that does not match.
PassThrough(x) ==
    /\ pc[x] = "arriving"
    /\ Give(side[x], x, "passed")
    /\ GoOn(x, side[x], "passed")
    /\ UNCHANGED <<feedVars, snap, override, queue, claimed, done, drained, op,
                   release, astray>>

\* The filter or the body could not be read: the hook fails the exchange.
HookFails(x) ==
    /\ pc[x] = "arriving"
    /\ Wanted(x)
    /\ Give(side[x], x, "failed")
    /\ GoOn(x, side[x], "failed")
    /\ UNCHANGED <<feedVars, snap, override, queue, claimed, done, drained, op,
                   release, astray>>

\* The snapshot is read here and the queue is entered in a later step.
Admit(x) ==
    /\ pc[x] = "arriving"
    /\ Wanted(x)
    /\ snap' = [snap EXCEPT ![x] = active]
    /\ pc' = [pc EXCEPT ![x] = "admitted"]
    /\ UNCHANGED <<feedVars, verdict, side, override, queue, claimed, done,
                   drained, op, release, astray>>

Register(x) ==
    /\ pc[x] = "admitted"
    /\ pc' = [pc EXCEPT ![x] = "held"]
    /\ queue' = [queue EXCEPT ![side[x]] = @ \cup {x}]
    /\ astray' = IF StillHolds(side[x], x) THEN astray \ {x} ELSE astray \cup {x}
    /\ UNCHANGED <<feedVars, verdict, side, snap, override, claimed, done,
                   drained, op, release>>

GiveUp(x) ==
    /\ pc[x] = "held"
    /\ Give(side[x], x, "gaveup")
    /\ pc' = [pc EXCEPT ![x] = "decided"]
    /\ UNCHANGED <<feedVars, side, snap, override, queue, claimed, done,
                   drained, op, release, astray>>

\* The deferred function: done is closed first, the queue is left after.
CloseDone(x) ==
    /\ pc[x] = "decided"
    /\ done' = [done EXCEPT ![side[x]] = @ \cup {x}]
    /\ pc' = [pc EXCEPT ![x] = "closed"]
    /\ UNCHANGED <<feedVars, verdict, side, snap, override, queue, claimed,
                   drained, op, release, astray>>

Unregister(x) ==
    /\ pc[x] = "closed"
    /\ queue' = [queue EXCEPT ![side[x]] = @ \ {x}]
    /\ GoOn(x, side[x], verdict[side[x]][x])
    /\ snap' = [snap EXCEPT ![x] = None]
    /\ UNCHANGED <<feedVars, verdict, override, claimed, done, drained, op,
                   release, astray>>

\* The upstream cannot be reached: the response hook is never called.
UpstreamFails(x) ==
    /\ pc[x] = "arriving"
    /\ side[x] = "response"
    /\ pc' = [pc EXCEPT ![x] = "finished"]
    /\ UNCHANGED <<feedVars, verdict, side, snap, override, queue, claimed,
                   done, drained, op, release, astray>>

\* Broken: a buffered channel takes an answer nobody is waiting for.
TakeBuffered(s, x, v) ==
    /\ x \in queue[s]
    /\ Give(s, x, v)
    /\ pc' = [pc EXCEPT ![x] = IF @ = "held" THEN "decided" ELSE @]

\* Somebody's offer meets the select of hook s: the rendezvous of an
\* unbuffered channel.
Take(s, x, v) ==
    /\ Held(s, x)
    /\ Give(s, x, v)
    /\ pc' = [pc EXCEPT ![x] = "decided"]

\* The item itself goes out as it is at that moment.
Item(s, x) == IF x \in drained[s] THEN "emptied" ELSE "sent"

-----------------------------------------------------------------------------
(* Console operations.  A forward without a body in the request forwards   *)
(* the item as it is ("plain"); with one it builds an edited copy.         *)

SetOp(u, at) == op' = [op EXCEPT ![u].at = at]

EndOp(u) == op' = [op EXCEPT ![u] = OpIdle]

LookUp(u, what, s, x, then) ==
    /\ op[u].at = "idle"
    /\ x \in queue[s]
    /\ then # "unset" => what = "edit" /\ s = "request"
    /\ op' = [op EXCEPT ![u] = [at |-> IF what = "drop" THEN "offering" ELSE "found",
                                what |-> what, side |-> s, x |-> x, then |-> then]]
    /\ UNCHANGED <<feedVars, hookVars, verdict, claimed, drained, release>>

\* Broken: the flag is set without looking at it.
ClaimBlindly(u) ==
    /\ op[u].at = "found"
    /\ claimed' = [claimed EXCEPT ![op[u].side] = @ \cup {op[u].x}]
    /\ SetOp(u, IF op[u].what = "edit" THEN "building" ELSE "offering")
    /\ UNCHANGED <<feedVars, hookVars, verdict, drained, release>>

\* claimed.CompareAndSwap(false, true).
Claim(u) ==
    /\ op[u].at = "found"
    /\ op[u].x \notin claimed[op[u].side]
    /\ claimed' = [claimed EXCEPT ![op[u].side] = @ \cup {op[u].x}]
    /\ SetOp(u, IF op[u].what = "edit" THEN "building" ELSE "offering")
    /\ UNCHANGED <<feedVars, hookVars, verdict, drained, release>>

\* Another forward has it: ErrNotFound.
ClaimRefused(u) ==
    /\ op[u].at = "found"
    /\ op[u].x \in claimed[op[u].side]
    /\ EndOp(u)
    /\ UNCHANGED <<feedVars, hookVars, verdict, claimed, drained, release>>

\* apply, when the console sent a body.
BuildWithBody(u) ==
    /\ op[u].at = "building"
    /\ SetOp(u, "built")
    /\ UNCHANGED <<feedVars, hookVars, verdict, claimed, drained, release>>

\* apply, when it did not: the item's own body is read to the end and then
\* a fresh reader is put in its place.
ReadItemBody(u) ==
    /\ op[u].at = "building"
    /\ drained' = [drained EXCEPT ![op[u].side] = @ \cup {op[u].x}]
    /\ SetOp(u, "draining")
    /\ UNCHANGED <<feedVars, hookVars, verdict, claimed, release>>

ReplaceItemBody(u) ==
    /\ op[u].at = "draining"
    /\ drained' = [drained EXCEPT ![op[u].side] = @ \ {op[u].x}]
    /\ SetOp(u, "built")
    /\ UNCHANGED <<feedVars, hookVars, verdict, claimed, release>>

\* Broken: the item stays claimed after a refused edit.
BadForwardKeepsClaim(u) ==
    /\ op[u].at = "built"
    /\ op[u].side = "request"
    /\ EndOp(u)
    /\ UNCHANGED <<feedVars, hookVars, verdict, claimed, drained, release>>

\* An edited request may be refused (ErrBadForward) and is then unclaimed;
\* a response always builds.
BadForward(u) ==
    /\ op[u].at = "built"
    /\ op[u].side = "request"
    /\ claimed' = [claimed EXCEPT ![op[u].side] = @ \ {op[u].x}]
    /\ EndOp(u)
    /\ UNCHANGED <<feedVars, hookVars, verdict, drained, release>>

Built(u) ==
    /\ op[u].at = "built"
    /\ SetOp(u, "offering")
    /\ UNCHANGED <<feedVars, hookVars, verdict, claimed, drained, release>>

Offer(u) ==
    CASE op[u].what = "plain" -> Item(op[u].side, op[u].x)
      [] op[u].what = "edit" -> "sent"
      [] op[u].what = "drop" -> "dropped"

\* The answer is taken: the operation succeeds.
Answer(u) ==
    /\ op[u].at = "offering"
    /\ Take(op[u].side, op[u].x, Offer(u))
    /\ override' = IF op[u].then = "unset" THEN override
                   ELSE [override EXCEPT ![op[u].x] = op[u].then]
    /\ EndOp(u)
    /\ UNCHANGED <<feedVars, side, snap, queue, claimed, done, drained, release,
                   astray>>

\* Broken: a forward that came too late is built and offered again.
AnswerTooLateRetries(u) ==
    /\ op[u].at = "offering"
    /\ op[u].x \in done[op[u].side]
    /\ IF op[u].what = "edit" THEN SetOp(u, "building") ELSE EndOp(u)
    /\ UNCHANGED <<feedVars, hookVars, verdict, claimed, drained, release>>

\* ErrGone.
AnswerTooLate(u) ==
    /\ op[u].at = "offering"
    /\ op[u].x \in done[op[u].side]
    /\ EndOp(u)
    /\ UNCHANGED <<feedVars, hookVars, verdict, claimed, drained, release>>

-----------------------------------------------------------------------------
(* The project changes and the watcher releases: first the requests, then  *)
(* the responses; each queue is copied and then answered one by one.       *)

\* Broken: switching to another project is not a reason to release.
MustReleaseWhenOff(s) ==
    /\ notice.prev # None
    /\ \/ notice.next = None
       \/ notice.next # None /\ s \notin notice.next.on

\* onProjectChange asks for side s to be released.
MustRelease(s) ==
    /\ notice.prev # None
    /\ \/ notice.next = None
       \/ notice.next # None /\ notice.next.id # notice.prev.id
       \/ notice.next # None /\ s \notin notice.next.on

ProjectChange(next) ==
    /\ Publish(next)
    /\ release' = [ReleaseIdle EXCEPT !.at = "collect"]
    /\ UNCHANGED <<hookVars, verdict, claimed, drained, op>>

NextSide(s) ==
    IF s = "request" THEN [ReleaseIdle EXCEPT !.at = "collect", !.side = "response"]
                     ELSE [ReleaseIdle EXCEPT !.at = "over"]

Collect ==
    /\ release.at = "collect"
    /\ release' = IF MustRelease(release.side)
                  THEN [release EXCEPT !.at = "pick", !.todo = queue[release.side]]
                  ELSE NextSide(release.side)
    /\ UNCHANGED <<feedVars, hookVars, verdict, claimed, drained, op>>

Pick(x) ==
    /\ release.at = "pick"
    /\ x \in release.todo
    /\ release' = [release EXCEPT !.at = "offer", !.todo = @ \ {x}, !.now = x]
    /\ UNCHANGED <<feedVars, hookVars, verdict, claimed, drained, op>>

SideReleased ==
    /\ release.at = "pick"
    /\ release.todo = {}
    /\ release' = NextSide(release.side)
    /\ UNCHANGED <<feedVars, hookVars, verdict, claimed, drained, op>>

Release ==
    /\ release.at = "offer"
    /\ Take(release.side, release.now, Item(release.side, release.now))
    /\ release' = [release EXCEPT !.at = "pick", !.now = None]
    /\ UNCHANGED <<feedVars, side, snap, override, queue, claimed, done, drained, op,
                   astray>>

\* Broken: an item that is gone is tried again.
ReleaseTooLateRetries ==
    /\ release.at = "offer"
    /\ release.now \in done[release.side]
    /\ release' = [release EXCEPT !.at = "pick", !.todo = @ \cup {release.now}, !.now = None]
    /\ UNCHANGED <<feedVars, hookVars, verdict, claimed, drained, op>>

ReleaseTooLate ==
    /\ release.at = "offer"
    /\ release.now \in done[release.side]
    /\ release' = [release EXCEPT !.at = "pick", !.now = None]
    /\ UNCHANGED <<feedVars, hookVars, verdict, claimed, drained, op>>

Released ==
    /\ release.at = "over"
    /\ Settle
    /\ release' = ReleaseIdle
    /\ UNCHANGED <<hookVars, verdict, claimed, drained, op>>

-----------------------------------------------------------------------------

HookStep(x) ==
    \/ PassThrough(x) \/ HookFails(x) \/ Admit(x) \/ Register(x)
    \/ GiveUp(x) \/ CloseDone(x) \/ Unregister(x) \/ UpstreamFails(x)

OpStep(u) ==
    \/ \E what \in {"plain", "edit", "drop"}, s \in Sides, x \in Exchanges,
          then \in Overrides : LookUp(u, what, s, x, then)
    \/ Claim(u) \/ ClaimRefused(u) \/ BuildWithBody(u) \/ ReadItemBody(u)
    \/ ReplaceItemBody(u) \/ BadForward(u) \/ Built(u) \/ Answer(u)
    \/ AnswerTooLate(u)

WatcherStep ==
    \/ Collect \/ SideReleased \/ Release \/ ReleaseTooLate \/ Released
    \/ \E x \in Exchanges : Pick(x)

Next ==
    \/ \E x \in Exchanges : HookStep(x)
    \/ \E u \in Users : OpStep(u)
    \/ WatcherStep
    \/ \E next \in Opening : ProjectChange(next)

Spec == Init /\ [][Next]_vars

(***************************************************************************)
(* Goroutines that can go on do.  Nobody is made to arrive, to answer, to  *)
(* give up or to change the project: those are people and clients.         *)
(***************************************************************************)
HookGoesOn(x) == Register(x) \/ CloseDone(x) \/ Unregister(x)

OpGoesOn(u) ==
    \/ Claim(u) \/ ClaimRefused(u) \/ BuildWithBody(u) \/ ReadItemBody(u)
    \/ ReplaceItemBody(u) \/ Built(u) \/ Answer(u) \/ AnswerTooLate(u)

Fairness ==
    /\ \A x \in Exchanges : WF_vars(HookGoesOn(x))
    /\ \A u \in Users : WF_vars(OpGoesOn(u))
    /\ WF_vars(WatcherStep)

FairSpec == Spec /\ Fairness

-----------------------------------------------------------------------------

TypeOK ==
    /\ FeedTypeOK
    /\ verdict \in [Sides -> [Exchanges -> Verdicts]]
    /\ pc \in [Exchanges -> HookPoints]
    /\ side \in [Exchanges -> Sides]
    /\ snap \in [Exchanges -> Opening]
    /\ override \in [Exchanges -> Overrides]
    /\ queue \in [Sides -> SUBSET Exchanges]
    /\ claimed \in [Sides -> SUBSET Exchanges]
    /\ done \in [Sides -> SUBSET Exchanges]
    /\ drained \in [Sides -> SUBSET Exchanges]
    /\ op \in [Users -> Ops]
    /\ release \in Releases
    /\ astray \in SUBSET Exchanges

\* Operation u is the forward that has claimed the item of x.
Forwards(u, s, x) ==
    /\ op[u].at \in {"building", "draining", "built", "offering"}
    /\ op[u].what \in {"plain", "edit"}
    /\ op[u].side = s
    /\ op[u].x = x

\* What waits can be answered: it is in the queue the console looks in, and
\* if it is claimed then by a forward that is still under way - a forward
\* that failed gives it back (ForwardRequest, the deferred part of Request).
HeldIsAnswerable ==
    \A s \in Sides, x \in Exchanges : Held(s, x) =>
        /\ x \in queue[s]
        /\ x \notin done[s]
        /\ x \in claimed[s] => \E u \in Users : Forwards(u, s, x)

\* Two forwards of one id never build an answer from its item at the same
\* time (the comment on pending.claimed).
OneForwardAtATime ==
    \A s \in Sides, x \in Exchanges, u, w \in Users :
        Forwards(u, s, x) /\ Forwards(w, s, x) => u = w

\* Between announcements, an exchange is held on a side the open project
\* does not hold only if its hook had read an outdated project when it
\* entered the queue: the watcher misses nobody who was there before the
\* change (onProjectChange, releaseAllRequests, releaseAllResponses).
OnlyStraysLinger ==
    notice = Quiet =>
        \A s \in Sides, x \in Exchanges :
            Held(s, x) /\ x \notin astray => StillHolds(s, x)

\* One verdict for a request, then one for its response, and none is ever
\* changed, whoever answers and in whatever order (Request, Response and
\* the four operations; docs/intercept.md "nothing is sent upstream later").
OneVerdictEach == VerdictSpec

\* A console operation never hangs: it answers, or learns that it came too
\* late (the select on answer and done).
OperationsEnd == \A u \in Users : op[u].at # "idle" ~> op[u].at = "idle"

\* The watcher always returns, so the project lock it is called under is
\* always given up (releaseAllRequests, releaseAllResponses).
WatchersReturn == notice # Quiet ~> notice = Quiet

\* Switching holding off, or closing or switching the project, lets every
\* held request go (docs/intercept.md "Turning a switch off releases
\* everything waiting").
SwitchOffReleases ==
    notice = Quiet =>
        \A x \in Exchanges : Held("request", x) => Holds(active, "request")

\* What the watcher releases goes on as it arrived (the comment on
\* NewService, docs/intercept.md "unmodified").
ReleasedUnmodified ==
    \A s \in Sides, x \in Exchanges : verdict[s][x] # "emptied"

=============================================================================
