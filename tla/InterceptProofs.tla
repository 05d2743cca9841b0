--------------------------- MODULE InterceptProofs ---------------------------
(***************************************************************************)
(* What Intercept guarantees for any number of exchanges, console          *)
(* operations and projects.                                                *)
(***************************************************************************)
EXTENDS Intercept, TLAPS

USE NoneAssumption, SnapshotAssumption, NobodyAssumption

\* The variables keep their types.
THEOREM TypeCorrect == Spec => []TypeOK
<1>1. Init => TypeOK
  BY DEF Init, TypeOK, FeedInit, FeedTypeOK, VerdictInit, NoVerdicts, Verdicts,
         Undecided, Sides, HookPoints, Opening, Overrides, Ops, OpIdle, Releases,
         ReleaseIdle, Quiet, Notices
<1>2. TypeOK /\ [Next]_vars => TypeOK'
  <2> SUFFICES ASSUME TypeOK, [Next]_vars PROVE TypeOK'
    OBVIOUS
  <2> USE DEF TypeOK, FeedTypeOK, Verdicts, Onward, Refusals, Undecided, Sides,
              HookPoints, Opening, Overrides, Ops, OpIdle, Releases, ReleaseIdle,
              Quiet, Notices, feedVars, hookVars
  <2>1. ASSUME NEW x \in Exchanges, PassThrough(x) PROVE TypeOK'
    <3>1. verdict' \in [Sides -> [Exchanges -> Verdicts]]
      BY <2>1 DEF PassThrough, Give
    <3>2. pc' \in [Exchanges -> HookPoints] /\ side' \in [Exchanges -> Sides]
      BY <2>1 DEF PassThrough, GoOn
    <3> QED
      BY <2>1, <3>1, <3>2 DEF PassThrough
  <2>2. ASSUME NEW x \in Exchanges, HookFails(x) PROVE TypeOK'
    BY <2>2 DEF HookFails, Give, GoOn
  <2>3. ASSUME NEW x \in Exchanges, Admit(x) PROVE TypeOK'
    BY <2>3 DEF Admit
  <2>4. ASSUME NEW x \in Exchanges, Register(x) PROVE TypeOK'
    BY <2>4 DEF Register
  <2>5. ASSUME NEW x \in Exchanges, GiveUp(x) PROVE TypeOK'
    BY <2>5 DEF GiveUp, Give
  <2>6. ASSUME NEW x \in Exchanges, CloseDone(x) PROVE TypeOK'
    BY <2>6 DEF CloseDone
  <2>7. ASSUME NEW x \in Exchanges, Unregister(x) PROVE TypeOK'
    BY <2>7 DEF Unregister, GoOn
  <2>8. ASSUME NEW x \in Exchanges, UpstreamFails(x) PROVE TypeOK'
    BY <2>8 DEF UpstreamFails
  <2>9. ASSUME NEW u \in Users, NEW what \in {"plain", "edit", "drop"}, NEW s \in Sides,
             NEW x \in Exchanges, NEW then \in Overrides, LookUp(u, what, s, x, then)
       PROVE  TypeOK'
    BY <2>9 DEF LookUp
  <2>10. ASSUME NEW u \in Users, Claim(u) PROVE TypeOK'
    BY <2>10 DEF Claim, SetOp
  <2>11. ASSUME NEW u \in Users, ClaimRefused(u) PROVE TypeOK'
    BY <2>11 DEF ClaimRefused, EndOp
  <2>12. ASSUME NEW u \in Users, BuildWithBody(u) PROVE TypeOK'
    BY <2>12, SMTT(60) DEF BuildWithBody, SetOp
  <2>13. ASSUME NEW u \in Users, ReadItemBody(u) PROVE TypeOK'
    BY <2>13 DEF ReadItemBody, SetOp
  <2>14. ASSUME NEW u \in Users, ReplaceItemBody(u) PROVE TypeOK'
    BY <2>14 DEF ReplaceItemBody, SetOp
  <2>15. ASSUME NEW u \in Users, BadForward(u) PROVE TypeOK'
    BY <2>15 DEF BadForward, EndOp
  <2>16. ASSUME NEW u \in Users, Built(u) PROVE TypeOK'
    BY <2>16 DEF Built, SetOp
  <2>17. ASSUME NEW u \in Users, Answer(u) PROVE TypeOK'
    BY <2>17 DEF Answer, Take, Give, Offer, Item, Held, EndOp
  <2>18. ASSUME NEW u \in Users, AnswerTooLate(u) PROVE TypeOK'
    BY <2>18 DEF AnswerTooLate, EndOp
  <2>19. CASE Collect
    BY <2>19 DEF Collect, NextSide
  <2>20. CASE SideReleased
    BY <2>20 DEF SideReleased, NextSide
  <2>21. CASE Release
    BY <2>21 DEF Release, Take, Give, Item, Held
  <2>22. CASE ReleaseTooLate
    BY <2>22 DEF ReleaseTooLate
  <2>23. CASE Released
    BY <2>23 DEF Released, Settle
  <2>24. ASSUME NEW x \in Exchanges, Pick(x) PROVE TypeOK'
    BY <2>24 DEF Pick
  <2>25. ASSUME NEW next \in Opening, ProjectChange(next) PROVE TypeOK'
    BY <2>25 DEF ProjectChange, Publish, Announce
  <2>26. CASE UNCHANGED vars
    BY <2>26 DEF vars
  <2> HIDE DEF TypeOK
  <2> QED
    BY <2>1, <2>2, <2>3, <2>4, <2>5, <2>6, <2>7, <2>8, <2>9, <2>10, <2>11, <2>12, <2>13, <2>14, <2>15, <2>16, <2>17, <2>18, <2>19, <2>20, <2>21, <2>22, <2>23, <2>24, <2>25, <2>26
    DEF Next, HookStep, OpStep, WatcherStep
<1> QED
  BY <1>1, <1>2, PTL DEF Spec

-----------------------------------------------------------------------------
(***************************************************************************)
(* Where an item is.  An exchange that has not come to a hook has left no  *)
(* trace there: not in its queue, not among the closed or the claimed, and *)
(* no operation has found it.  From then on it is in the queue until its   *)
(* hook takes it out, and is not closed before its hook has an answer.     *)
(***************************************************************************)

Unreached(s, x) ==
    \/ s = "response" /\ side[x] = "request"
    \/ s = side[x] /\ pc[x] \in {"arriving", "admitted"}

NoTrace(s, x) ==
    /\ x \notin queue[s]
    /\ x \notin done[s]
    /\ x \notin claimed[s]
    /\ \A u \in Users : op[u].at = "idle" \/ op[u].side # s \/ op[u].x # x

InPlace(x) ==
    /\ \A s \in Sides : Unreached(s, x) => NoTrace(s, x)
    /\ pc[x] \in {"held", "decided"} => x \in queue[side[x]] /\ x \notin done[side[x]]

Places == \A x \in Exchanges : InPlace(x)

\* An operation under way is about an exchange.
LEMMA OpTyped ==
    ASSUME TypeOK, NEW u \in Users, op[u].at # "idle"
    PROVE  op[u].x \in Exchanges /\ op[u].side \in Sides
<1> QED
  BY DEF TypeOK, Ops, OpIdle

\* So is an offer of the watcher.
LEMMA ReleaseTyped ==
    ASSUME TypeOK, release.at = "offer"
    PROVE  release.now \in Exchanges /\ release.side \in Sides
<1> QED
  BY DEF TypeOK, Releases

\* The items of Intercept are where their hooks put them (Request, Response
\* and the two queues).
LEMMA PlacesHold == Spec => []Places
<1>1. Init => Places
  BY DEF Init, Places, InPlace, Unreached, NoTrace, Sides, OpIdle
<1>2. TypeOK /\ Places /\ [Next]_vars => Places'
  <2> SUFFICES ASSUME TypeOK, Places, [Next]_vars PROVE Places'
    OBVIOUS
  <2> USE DEF Places, InPlace, Unreached, NoTrace, TypeOK, Sides, HookPoints, Ops, OpIdle, feedVars, hookVars
  <2>1. ASSUME NEW x \in Exchanges, PassThrough(x) PROVE Places'
    BY <2>1 DEF PassThrough, Give, GoOn
  <2>2. ASSUME NEW x \in Exchanges, HookFails(x) PROVE Places'
    BY <2>2 DEF HookFails, Give, GoOn
  <2>3. ASSUME NEW x \in Exchanges, Admit(x) PROVE Places'
    BY <2>3 DEF Admit
  <2>4. ASSUME NEW x \in Exchanges, Register(x) PROVE Places'
    BY <2>4 DEF Register
  <2>5. ASSUME NEW x \in Exchanges, GiveUp(x) PROVE Places'
    BY <2>5 DEF GiveUp, Give
  <2>6. ASSUME NEW x \in Exchanges, CloseDone(x) PROVE Places'
    BY <2>6 DEF CloseDone
  <2>7. ASSUME NEW x \in Exchanges, Unregister(x) PROVE Places'
    BY <2>7 DEF Unregister, GoOn
  <2>8. ASSUME NEW x \in Exchanges, UpstreamFails(x) PROVE Places'
    BY <2>8 DEF UpstreamFails
  <2>9. ASSUME NEW u \in Users, NEW what \in {"plain", "edit", "drop"}, NEW s \in Sides,
             NEW x \in Exchanges, NEW then \in Overrides, LookUp(u, what, s, x, then)
       PROVE  Places'
    BY <2>9 DEF LookUp
  <2>10. ASSUME NEW u \in Users, Claim(u) PROVE Places'
    BY <2>10 DEF Claim, SetOp
  <2>11. ASSUME NEW u \in Users, ClaimRefused(u) PROVE Places'
    BY <2>11 DEF ClaimRefused, EndOp
  <2>12. ASSUME NEW u \in Users, BuildWithBody(u) PROVE Places'
    BY <2>12 DEF BuildWithBody, SetOp
  <2>13. ASSUME NEW u \in Users, ReadItemBody(u) PROVE Places'
    BY <2>13 DEF ReadItemBody, SetOp
  <2>14. ASSUME NEW u \in Users, ReplaceItemBody(u) PROVE Places'
    BY <2>14 DEF ReplaceItemBody, SetOp
  <2>15. ASSUME NEW u \in Users, BadForward(u) PROVE Places'
    BY <2>15 DEF BadForward, EndOp
  <2>16. ASSUME NEW u \in Users, Built(u) PROVE Places'
    BY <2>16 DEF Built, SetOp
  <2>17. ASSUME NEW u \in Users, Answer(u) PROVE Places'
    <3>1. op[u].x \in Exchanges /\ op[u].side \in Sides
      BY <2>17, OpTyped DEF Answer
    <3>2. pc' = [pc EXCEPT ![op[u].x] = "decided"] /\ pc[op[u].x] = "held"
      BY <2>17 DEF Answer, Take, Held
    <3>3. op' = [op EXCEPT ![u] = OpIdle] /\ UNCHANGED <<side, queue, claimed, done>>
      BY <2>17 DEF Answer, EndOp
    <3> QED
      BY <3>1, <3>2, <3>3
  <2>18. ASSUME NEW u \in Users, AnswerTooLate(u) PROVE Places'
    BY <2>18 DEF AnswerTooLate, EndOp
  <2>19. CASE Collect
    BY <2>19 DEF Collect, NextSide
  <2>20. CASE SideReleased
    BY <2>20 DEF SideReleased, NextSide
  <2>21. CASE Release
    <3>1. release.now \in Exchanges
      BY <2>21, ReleaseTyped DEF Release
    <3>2. pc' = [pc EXCEPT ![release.now] = "decided"] /\ pc[release.now] = "held"
      BY <2>21 DEF Release, Take, Held
    <3>3. UNCHANGED <<side, queue, claimed, done, op>>
      BY <2>21 DEF Release
    <3> QED
      BY <3>1, <3>2, <3>3
  <2>22. CASE ReleaseTooLate
    BY <2>22 DEF ReleaseTooLate
  <2>23. CASE Released
    BY <2>23 DEF Released, Settle
  <2>24. ASSUME NEW x \in Exchanges, Pick(x) PROVE Places'
    BY <2>24 DEF Pick
  <2>25. ASSUME NEW next \in Opening, ProjectChange(next) PROVE Places'
    BY <2>25 DEF ProjectChange, Publish, Announce
  <2>26. CASE UNCHANGED vars
    BY <2>26 DEF vars
  <2> HIDE DEF Places, TypeOK
  <2> QED
    BY <2>1, <2>2, <2>3, <2>4, <2>5, <2>6, <2>7, <2>8, <2>9, <2>10, <2>11, <2>12, <2>13, <2>14, <2>15, <2>16, <2>17, <2>18, <2>19, <2>20, <2>21, <2>22, <2>23, <2>24, <2>25, <2>26
    DEF Next, HookStep, OpStep, WatcherStep
<1> QED
  BY <1>1, <1>2, TypeCorrect, PTL DEF Spec

-----------------------------------------------------------------------------
(***************************************************************************)
(* Who claims.  A forward under way has its item claimed, and whoever has  *)
(* claimed an item that still waits is such a forward: the claim is made   *)
(* with the first step of a forward, and is given back when the forward is *)
(* refused.  A forward that came too late leaves its claim on an item that *)
(* nobody waits with any more.                                             *)
(***************************************************************************)

ForwardClaims ==
    \A s \in Sides, x \in Exchanges, u \in Users : Forwards(u, s, x) => x \in claimed[s]

WaitingClaimed ==
    \A s \in Sides, x \in Exchanges :
        Held(s, x) /\ x \in claimed[s] => \E u \in Users : Forwards(u, s, x)

Claims == ForwardClaims /\ WaitingClaimed /\ OneForwardAtATime

\* A step that moves no operation, and lets no claimed item start to wait.
LEMMA ClaimsKept ==
    ASSUME Claims, UNCHANGED <<op, claimed>>,
           \A s \in Sides, x \in Exchanges :
               Held(s, x)' => Held(s, x) \/ x \notin claimed[s]
    PROVE  Claims'
<1>1. \A u, s, x : Forwards(u, s, x)' <=> Forwards(u, s, x)
  BY DEF Forwards
<1> QED
  BY <1>1 DEF Claims, ForwardClaims, WaitingClaimed, OneForwardAtATime

\* A step of one operation that neither starts nor ends its forward.
LEMMA ClaimsCarried ==
    ASSUME Claims, NEW u \in Users, UNCHANGED <<pc, side, claimed>>,
           \A w \in Users : \A s, x : Forwards(w, s, x)' <=> Forwards(w, s, x)
    PROVE  Claims'
<1>1. \A s, x : Held(s, x)' <=> Held(s, x)
  BY DEF Held
<1> QED
  BY <1>1 DEF Claims, ForwardClaims, WaitingClaimed, OneForwardAtATime

\* The claims are as described above in every reachable state
\* (pending.claimed).
LEMMA ClaimsHold == Spec => []Claims
<1>1. Init => Claims
  BY DEF Init, Claims, ForwardClaims, WaitingClaimed, OneForwardAtATime, Forwards, Held,
         OpIdle
<1>2. TypeOK /\ Places /\ Claims /\ [Next]_vars => Claims'
  <2> SUFFICES ASSUME TypeOK, Places, Claims, [Next]_vars PROVE Claims'
    OBVIOUS
  <2>1. ASSUME NEW x \in Exchanges, HookStep(x) PROVE Claims'
    <3>1. UNCHANGED <<op, claimed>>
      BY <2>1 DEF HookStep, PassThrough, HookFails, Admit, Register, GiveUp, CloseDone,
                  Unregister, UpstreamFails
    <3>2. CASE Register(x)
      <4>1. x \notin claimed[side[x]]
        BY <3>2 DEF Places, InPlace, Unreached, NoTrace, Register, TypeOK
      <4>2. pc' = [pc EXCEPT ![x] = "held"] /\ UNCHANGED side
        BY <3>2 DEF Register
      <4>3. \A s \in Sides, y \in Exchanges : Held(s, y)' => Held(s, y) \/ y \notin claimed[s]
        BY <4>1, <4>2 DEF Held, TypeOK
      <4> QED
        BY <3>1, <4>3, ClaimsKept
    <3>3. CASE ~Register(x)
      <4>1. /\ \A y \in Exchanges \ {x} : pc'[y] = pc[y] /\ side'[y] = side[y]
            /\ pc'[x] # "held"
        BY <2>1, <3>3 DEF HookStep, PassThrough, HookFails, Admit, GiveUp, CloseDone,
                    Unregister, UpstreamFails, GoOn, TypeOK
      <4>2. \A s \in Sides, y \in Exchanges : Held(s, y)' => Held(s, y)
        BY <4>1 DEF Held
      <4> QED
        BY <3>1, <4>2, ClaimsKept
    <3> QED
      BY <3>2, <3>3
  <2>2. ASSUME NEW u \in Users, NEW what \in {"plain", "edit", "drop"}, NEW s \in Sides,
             NEW x \in Exchanges, NEW then \in Overrides, LookUp(u, what, s, x, then)
       PROVE  Claims'
    <3>1. UNCHANGED <<pc, side, claimed>>
      BY <2>2 DEF LookUp, hookVars
    <3>2. \A w \in Users : \A r, y : Forwards(w, r, y)' <=> Forwards(w, r, y)
      BY <2>2 DEF LookUp, Forwards, TypeOK
    <3> QED
      BY <3>1, <3>2, ClaimsCarried
  <2>3. ASSUME NEW u \in Users, Claim(u) PROVE Claims'
    <3> DEFINE s == op[u].side
               x == op[u].x
    <3>1. /\ x \in Exchanges /\ s \in Sides /\ x \notin claimed[s]
          /\ claimed' = [claimed EXCEPT ![s] = @ \cup {x}]
          /\ UNCHANGED <<pc, side>>
      BY <2>3, OpTyped DEF Claim, hookVars
    <3>2. /\ \A w \in Users \ {u} : op'[w] = op[w]
          /\ \A r, y : Forwards(u, r, y)' <=> r = s /\ y = x
      BY <2>3 DEF Claim, SetOp, Forwards, TypeOK, Ops, OpIdle
    <3>3. \A w \in Users \ {u} : \A r, y : Forwards(w, r, y)' <=> Forwards(w, r, y)
      BY <3>2 DEF Forwards
    <3>4. \A r \in Sides, y \in Exchanges : Held(r, y)' <=> Held(r, y)
      BY <3>1 DEF Held
    <3>5. \A r \in Sides, y \in Exchanges :
            y \in claimed'[r] <=> y \in claimed[r] \/ (r = s /\ y = x)
      BY <3>1 DEF TypeOK
    <3> HIDE DEF s, x
    <3>6. \A w \in Users : ~Forwards(w, s, x)
      BY <3>1 DEF Claims, ForwardClaims
    <3>7. ForwardClaims'
      BY <3>2, <3>3, <3>5 DEF Claims, ForwardClaims
    <3>8. WaitingClaimed'
      <4> SUFFICES ASSUME NEW r \in Sides, NEW y \in Exchanges, Held(r, y)', y \in claimed'[r]
                   PROVE  \E w \in Users : Forwards(w, r, y)'
        BY DEF WaitingClaimed
      <4>1. CASE r = s /\ y = x
        BY <3>2, <4>1
      <4>2. CASE ~(r = s /\ y = x)
        <5>1. PICK w \in Users : Forwards(w, r, y)
          BY <3>4, <3>5, <4>2 DEF Claims, WaitingClaimed
        <5>2. w # u
          BY <2>3, <5>1 DEF Claim, Forwards
        <5> QED
          BY <3>3, <5>1, <5>2
      <4> QED
        BY <4>1, <4>2
    <3>9. OneForwardAtATime'
      BY <3>2, <3>3, <3>6 DEF Claims, OneForwardAtATime
    <3> QED
      BY <3>7, <3>8, <3>9 DEF Claims
  <2>4. ASSUME NEW u \in Users, ClaimRefused(u) PROVE Claims'
    <3>1. UNCHANGED <<pc, side, claimed>>
      BY <2>4 DEF ClaimRefused, hookVars
    <3>2. \A w \in Users : \A r, y : Forwards(w, r, y)' <=> Forwards(w, r, y)
      BY <2>4 DEF ClaimRefused, EndOp, OpIdle, Forwards, TypeOK
    <3> QED
      BY <3>1, <3>2, ClaimsCarried
  <2>5. ASSUME NEW u \in Users, \/ BuildWithBody(u) \/ ReadItemBody(u)
                                \/ ReplaceItemBody(u) \/ Built(u)
        PROVE  Claims'
    <3>1. UNCHANGED <<pc, side, claimed>>
      BY <2>5 DEF BuildWithBody, ReadItemBody, ReplaceItemBody, Built, hookVars
    <3>2. PICK at \in {"building", "draining", "built", "offering"} :
             SetOp(u, at) /\ op[u].at \in {"building", "draining", "built", "offering"}
      BY <2>5 DEF BuildWithBody, ReadItemBody, ReplaceItemBody, Built
    <3>3. /\ op'[u].at = at /\ op'[u].what = op[u].what
          /\ op'[u].side = op[u].side /\ op'[u].x = op[u].x
          /\ \A w \in Users \ {u} : op'[w] = op[w]
      <4>1. op \in [Users -> Ops] /\ op' = [op EXCEPT ![u] = [op[u] EXCEPT !.at = at]]
        BY <3>2 DEF SetOp, TypeOK
      <4>2. /\ [op[u] EXCEPT !.at = at].at = at
            /\ [op[u] EXCEPT !.at = at].what = op[u].what
            /\ [op[u] EXCEPT !.at = at].side = op[u].side
            /\ [op[u] EXCEPT !.at = at].x = op[u].x
        BY <4>1 DEF Ops, OpIdle
      <4> QED
        BY <4>1, <4>2
    <3>4. \A w \in Users : \A r, y : Forwards(w, r, y)' <=> Forwards(w, r, y)
      BY <3>2, <3>3 DEF Forwards
    <3> QED
      BY <3>1, <3>4, ClaimsCarried
  <2>6. ASSUME NEW u \in Users, BadForward(u) PROVE Claims'
    <3> DEFINE s == op[u].side
               x == op[u].x
    <3>1. /\ x \in Exchanges /\ s \in Sides
          /\ claimed' = [claimed EXCEPT ![s] = @ \ {x}]
          /\ op' = [op EXCEPT ![u] = OpIdle]
          /\ UNCHANGED <<pc, side>>
      BY <2>6, OpTyped DEF BadForward, EndOp, hookVars
    <3>2. Forwards(u, s, x)
      BY <2>6 DEF BadForward, Forwards, TypeOK, Ops, OpIdle
    <3>3. \A w \in Users : \A r, y : Forwards(w, r, y)' <=> w # u /\ Forwards(w, r, y)
      BY <3>1 DEF Forwards, TypeOK, OpIdle
    <3>4. \A r, y : Forwards(u, r, y) => r = s /\ y = x
      BY DEF Forwards
    <3>5. \A r \in Sides, y \in Exchanges : Held(r, y)' <=> Held(r, y)
      BY <3>1 DEF Held
    <3>6. \A r \in Sides, y \in Exchanges :
            y \in claimed'[r] <=> y \in claimed[r] /\ ~(r = s /\ y = x)
      BY <3>1 DEF TypeOK
    <3> HIDE DEF s, x
    <3> QED
      BY <3>1, <3>2, <3>3, <3>4, <3>5, <3>6
      DEF Claims, ForwardClaims, WaitingClaimed, OneForwardAtATime
  <2>7. ASSUME NEW u \in Users, \/ Answer(u) \/ AnswerTooLate(u) PROVE Claims'
    <3> DEFINE s == op[u].side
               x == op[u].x
    <3>1. x \in Exchanges /\ s \in Sides
      BY <2>7, OpTyped DEF Answer, AnswerTooLate
    <3>2. op' = [op EXCEPT ![u] = OpIdle] /\ UNCHANGED <<side, claimed>>
      BY <2>7 DEF Answer, AnswerTooLate, EndOp, hookVars
    <3>3. \A w \in Users : \A r, y : Forwards(w, r, y)' <=> w # u /\ Forwards(w, r, y)
      BY <3>2 DEF Forwards, TypeOK, OpIdle
    <3>4. \A r, y : Forwards(u, r, y) => r = s /\ y = x
      BY DEF Forwards
    <3>5. \A r \in Sides, y \in Exchanges :
            Held(r, y)' => Held(r, y) /\ ~(r = s /\ y = x)
      <4>1. CASE Answer(u)
        BY <3>1, <3>2, <4>1 DEF Answer, Take, Held, TypeOK
      <4>2. CASE AnswerTooLate(u)
        BY <4>2 DEF AnswerTooLate, Held, hookVars, Places, InPlace
      <4> QED
        BY <2>7, <4>1, <4>2
    <3> HIDE DEF s, x
    <3> QED
      BY <3>1, <3>2, <3>3, <3>4, <3>5
      DEF Claims, ForwardClaims, WaitingClaimed, OneForwardAtATime
  <2>8. ASSUME \/ WatcherStep \/ \E next \in Opening : ProjectChange(next) PROVE Claims'
    <3>1. UNCHANGED <<op, claimed>>
      BY <2>8 DEF WatcherStep, Collect, SideReleased, Release, ReleaseTooLate, Released,
                  Pick, ProjectChange
    <3>2. \A s \in Sides, x \in Exchanges : Held(s, x)' => Held(s, x)
      <4>1. CASE Release
        <5>1. release.now \in Exchanges
          BY <4>1, ReleaseTyped DEF Release
        <5> QED
          BY <4>1, <5>1 DEF Release, Take, Held, TypeOK
      <4>2. CASE ~Release
        BY <2>8, <4>2 DEF WatcherStep, Collect, SideReleased, ReleaseTooLate, Released,
                    Pick, ProjectChange, hookVars, Held
      <4> QED
        BY <4>1, <4>2
    <3> QED
      BY <3>1, <3>2, ClaimsKept
  <2>9. CASE UNCHANGED vars
    BY <2>9, ClaimsKept DEF vars, Held
  <2> QED
    BY <2>1, <2>2, <2>3, <2>4, <2>5, <2>6, <2>7, <2>8, <2>9 DEF Next, OpStep
<1> QED
  BY <1>1, <1>2, TypeCorrect, PlacesHold, PTL DEF Spec

\* What waits can be answered, for any number of everything.
THEOREM Answerable == Spec => []HeldIsAnswerable
<1>1. TypeOK /\ Places /\ Claims => HeldIsAnswerable
  BY DEF TypeOK, Places, InPlace, Claims, WaitingClaimed, HeldIsAnswerable, Held
<1> QED
  BY <1>1, TypeCorrect, PlacesHold, ClaimsHold, PTL

\* Two forwards never build an answer from one item, for any number of them.
THEOREM OneForward == Spec => []OneForwardAtATime
<1>1. Claims => OneForwardAtATime
  BY DEF Claims
<1> QED
  BY <1>1, ClaimsHold, PTL

-----------------------------------------------------------------------------
(***************************************************************************)
(* Who is still to be released.  While the watchers are called, a held     *)
(* exchange that the open project no longer holds is one the watcher has   *)
(* still to come to: its side has still to be copied, or it is in the      *)
(* copy.                                                                   *)
(***************************************************************************)

StillToCome(s, x) ==
    /\ MustRelease(s)
    /\ \/ /\ release.side = "request" /\ s = "response"
          /\ release.at \in {"collect", "pick", "offer"}
       \/ release.side = s /\ release.at = "collect"
       \/ release.side = s /\ release.at \in {"pick", "offer"} /\ x \in release.todo
       \/ release.side = s /\ release.at = "offer" /\ x = release.now

Strays ==
    /\ notice = Quiet <=> release.at = "idle"
    /\ \A s \in Sides, x \in Exchanges :
         Held(s, x) /\ x \notin astray => StillHolds(s, x) \/ StillToCome(s, x)

\* A step that lets nobody begin to wait and leaves the project and its
\* watcher alone.
LEMMA StraysKept ==
    ASSUME Strays, UNCHANGED <<active, notice, release>>,
           \A s \in Sides, x \in Exchanges :
               Held(s, x)' => Held(s, x) /\ snap'[x] = snap[x] /\ (x \in astray => x \in astray')
    PROVE  Strays'
<1>1. \A s : MustRelease(s)' <=> MustRelease(s)
  BY DEF MustRelease
<1>2. \A s \in Sides, x \in Exchanges : StillToCome(s, x)' <=> StillToCome(s, x)
  BY <1>1 DEF StillToCome
<1>3. \A s \in Sides, x \in Exchanges :
        Held(s, x)' /\ StillHolds(s, x) => StillHolds(s, x)'
  BY DEF StillHolds, Holds
<1> QED
  BY <1>2, <1>3 DEF Strays

\* A step of the watcher between two announcements' ends: who was still to
\* come is answered, is gone, or is still to come.
LEMMA StraysAdvance ==
    ASSUME Strays, UNCHANGED <<active, notice, snap, astray>>,
           release.at # "idle", release'.at # "idle",
           \A s \in Sides, x \in Exchanges :
               Held(s, x)' => Held(s, x) /\ (StillToCome(s, x) => StillToCome(s, x)')
    PROVE  Strays'
<1>1. \A s \in Sides, x \in Exchanges : StillHolds(s, x) => StillHolds(s, x)'
  BY DEF StillHolds, Holds
<1> QED
  BY <1>1 DEF Strays

\* The releases of onProjectChange are as described above in every reachable
\* state.
LEMMA StraysHold == Spec => []Strays
<1>1. Init => Strays
  BY DEF Init, FeedInit, Quiet, ReleaseIdle, Strays, Held
<1>2. TypeOK /\ Places /\ Strays /\ [Next]_vars => Strays'
  <2> SUFFICES ASSUME TypeOK, Places, Strays, [Next]_vars PROVE Strays'
    OBVIOUS
  <2>1. ASSUME NEW x \in Exchanges, HookStep(x) PROVE Strays'
    <3>1. UNCHANGED <<active, notice, release>>
      BY <2>1 DEF HookStep, PassThrough, HookFails, Admit, Register, GiveUp, CloseDone,
                  Unregister, UpstreamFails, feedVars
    <3>2. CASE Register(x)
      <4>1. /\ pc' = [pc EXCEPT ![x] = "held"] /\ UNCHANGED <<side, snap>>
            /\ x \notin astray' => StillHolds(side[x], x)
            /\ \A y \in Exchanges \ {x} : y \in astray => y \in astray'
        BY <3>2 DEF Register, TypeOK
      <4>2. \A s : MustRelease(s)' <=> MustRelease(s)
        BY <3>1 DEF MustRelease
      <4>3. \A s \in Sides, y \in Exchanges : /\ StillToCome(s, y)' <=> StillToCome(s, y)
                                              /\ StillHolds(s, y)' <=> StillHolds(s, y)
        BY <3>1, <4>1, <4>2 DEF StillToCome, StillHolds, Holds
      <4>4. \A s \in Sides, y \in Exchanges :
              Held(s, y)' => IF y = x THEN s = side[x] ELSE Held(s, y)
        BY <4>1 DEF Held, TypeOK
      <4>5. notice' = Quiet <=> release'.at = "idle"
        BY <3>1 DEF Strays
      <4> QED
        BY <4>1, <4>3, <4>4, <4>5 DEF Strays
    <3>3. CASE ~Register(x)
      <4>1. /\ \A y \in Exchanges \ {x} : /\ pc'[y] = pc[y] /\ side'[y] = side[y]
                                          /\ snap'[y] = snap[y]
            /\ pc'[x] # "held"
            /\ UNCHANGED astray
        BY <2>1, <3>3 DEF HookStep, PassThrough, HookFails, Admit, GiveUp, CloseDone,
                    Unregister, UpstreamFails, GoOn, TypeOK
      <4>2. \A s \in Sides, y \in Exchanges :
              Held(s, y)' => Held(s, y) /\ snap'[y] = snap[y] /\ (y \in astray => y \in astray')
        BY <4>1 DEF Held
      <4> QED
        BY <3>1, <4>2, StraysKept
    <3> QED
      BY <3>2, <3>3
  <2>2. ASSUME NEW u \in Users, OpStep(u) PROVE Strays'
    <3>1. UNCHANGED <<active, notice, release, side, snap, astray>>
      BY <2>2 DEF OpStep, LookUp, Claim, ClaimRefused, BuildWithBody, ReadItemBody,
                  ReplaceItemBody, BadForward, Built, Answer, AnswerTooLate, feedVars, hookVars
    <3>2. \A y \in Exchanges : pc'[y] = "held" => pc[y] = "held"
      <4>1. CASE Answer(u)
        BY <4>1 DEF Answer, Take, TypeOK
      <4>2. CASE ~Answer(u)
        BY <2>2, <4>2 DEF OpStep, LookUp, Claim, ClaimRefused, BuildWithBody, ReadItemBody,
                  ReplaceItemBody, BadForward, Built, AnswerTooLate, hookVars
      <4> QED
        BY <4>1, <4>2
    <3>3. \A s \in Sides, y \in Exchanges :
            Held(s, y)' => Held(s, y) /\ snap'[y] = snap[y] /\ (y \in astray => y \in astray')
      BY <3>1, <3>2 DEF Held
    <3> QED
      BY <3>1, <3>3, StraysKept
  <2>3. CASE Collect
    <3>1. \A s : MustRelease(s)' <=> MustRelease(s)
      BY <2>3 DEF Collect, feedVars, MustRelease
    <3>2. \A s \in Sides, x \in Exchanges : Held(s, x) => x \in queue[s]
      BY DEF Places, InPlace, Held
    <3>3. /\ UNCHANGED <<active, notice, snap, astray, pc, side>>
          /\ release.at # "idle" /\ release'.at # "idle"
      BY <2>3 DEF Collect, feedVars, hookVars, NextSide, ReleaseIdle, TypeOK, Releases
    <3>4. \A s \in Sides, x \in Exchanges :
            Held(s, x) /\ StillToCome(s, x) => StillToCome(s, x)'
      BY <2>3, <3>1, <3>2 DEF Collect, StillToCome, NextSide, ReleaseIdle, TypeOK, Releases,
                              Sides
    <3>5. \A s \in Sides, x \in Exchanges : Held(s, x)' => Held(s, x)
      BY <3>3 DEF Held
    <3> QED
      BY <3>3, <3>4, <3>5, StraysAdvance
  <2>4. ASSUME \/ SideReleased \/ ReleaseTooLate \/ \E x \in Exchanges : Pick(x)
        PROVE  Strays'
    <3>1. /\ UNCHANGED <<active, notice, snap, astray, pc, side>>
          /\ release.at # "idle" /\ release'.at # "idle"
      BY <2>4 DEF SideReleased, ReleaseTooLate, Pick, feedVars, hookVars, NextSide,
                  ReleaseIdle, TypeOK, Releases
    <3>2. \A s : MustRelease(s)' <=> MustRelease(s)
      BY <3>1 DEF MustRelease
    <3>3. \A s \in Sides, x \in Exchanges : Held(s, x) => x \notin done[s]
      BY DEF Places, InPlace, Held
    <3>4. \A s \in Sides, x \in Exchanges :
            Held(s, x) /\ StillToCome(s, x) => StillToCome(s, x)'
      <4>1. CASE SideReleased
        BY <3>2, <4>1 DEF SideReleased, StillToCome, NextSide, ReleaseIdle, Sides
      <4>2. CASE ReleaseTooLate
        BY <3>2, <3>3, <4>2 DEF ReleaseTooLate, StillToCome, TypeOK, Releases
      <4>3. ASSUME NEW y \in Exchanges, Pick(y)
            PROVE  \A s \in Sides, x \in Exchanges : StillToCome(s, x) => StillToCome(s, x)'
        BY <3>2, <4>3 DEF Pick, StillToCome, TypeOK, Releases
      <4> QED
        BY <2>4, <4>1, <4>2, <4>3
    <3>5. \A s \in Sides, x \in Exchanges : Held(s, x)' => Held(s, x)
      BY <3>1 DEF Held
    <3> QED
      BY <3>1, <3>4, <3>5, StraysAdvance
  <2>5. CASE Release
    <3>1. /\ UNCHANGED <<active, notice, snap, astray, side>>
          /\ release.at # "idle" /\ release'.at # "idle"
          /\ release' = [release EXCEPT !.at = "pick", !.now = None]
          /\ pc' = [pc EXCEPT ![release.now] = "decided"]
          /\ release.at = "offer" /\ release.now \in Exchanges
      BY <2>5, ReleaseTyped DEF Release, Take, feedVars, TypeOK, Releases
    <3>2. \A s : MustRelease(s)' <=> MustRelease(s)
      BY <3>1 DEF MustRelease
    <3>3. \A s \in Sides, x \in Exchanges : Held(s, x)' => Held(s, x) /\ x # release.now
      BY <3>1 DEF Held, TypeOK
    <3>4. \A s \in Sides, x \in Exchanges :
            x # release.now /\ StillToCome(s, x) => StillToCome(s, x)'
      BY <3>1, <3>2 DEF StillToCome, TypeOK, Releases
    <3> QED
      BY <3>1, <3>3, <3>4, StraysAdvance
  <2>6. CASE Released
    <3>1. /\ release.at = "over" /\ release' = ReleaseIdle /\ notice' = Quiet
          /\ UNCHANGED <<active, pc, side, snap, astray>>
      BY <2>6 DEF Released, Settle, hookVars
    <3>2. \A s \in Sides, x \in Exchanges : ~StillToCome(s, x)
      BY <3>1 DEF StillToCome
    <3>3. \A s \in Sides, x \in Exchanges : /\ Held(s, x)' <=> Held(s, x)
                                            /\ StillHolds(s, x)' <=> StillHolds(s, x)
      BY <3>1 DEF Held, StillHolds, Holds
    <3> QED
      BY <3>1, <3>2, <3>3 DEF Strays, ReleaseIdle
  <2>7. ASSUME NEW next \in Opening, ProjectChange(next) PROVE Strays'
    <3>1. /\ notice = Quiet /\ active' = next /\ notice' = Announce(active, next)
          /\ release' = [ReleaseIdle EXCEPT !.at = "collect"]
          /\ UNCHANGED <<pc, side, snap, astray>>
      BY <2>7 DEF ProjectChange, Publish, hookVars
    <3>2. \A s \in Sides, x \in Exchanges : ~StillToCome(s, x)
      BY <3>1 DEF StillToCome, MustRelease, Quiet
    <3>3. \A s \in Sides, x \in Exchanges : Held(s, x)' <=> Held(s, x)
      BY <3>1 DEF Held
    <3>4. release'.side = "request" /\ release'.at = "collect"
      BY <3>1 DEF ReleaseIdle
    <3>5. \A s \in Sides, x \in Exchanges : StillHolds(s, x) =>
            \/ StillHolds(s, x)'
            \/ MustRelease(s)'
      BY <3>1 DEF StillHolds, Holds, MustRelease, Announce
    <3>6. \A s \in Sides, x \in Exchanges : MustRelease(s)' => StillToCome(s, x)'
      BY <3>4 DEF StillToCome, Sides
    <3>7. notice' # Quiet
      BY <3>1 DEF Announce, Quiet
    <3> QED
      BY <3>1, <3>2, <3>3, <3>4, <3>5, <3>6, <3>7 DEF Strays
  <2>8. CASE UNCHANGED vars
    BY <2>8, StraysKept DEF vars, Held
  <2> QED
    BY <2>1, <2>2, <2>3, <2>4, <2>5, <2>6, <2>7, <2>8 DEF Next, WatcherStep
<1> QED
  BY <1>1, <1>2, TypeCorrect, PlacesHold, PTL DEF Spec

\* The watcher misses nobody who was there before the change, for any number
\* of exchanges and projects.
THEOREM NobodyIsMissed == Spec => []OnlyStraysLinger
<1>1. Strays => OnlyStraysLinger
  BY DEF Strays, OnlyStraysLinger, StillToCome
<1> QED
  BY <1>1, StraysHold, PTL

-----------------------------------------------------------------------------
(***************************************************************************)
(* One verdict each.  An exchange that its hook has not answered has no    *)
(* verdict on that side, none on the response while it is a request, and   *)
(* is a response only after its request was let through.                   *)
(***************************************************************************)

Rights ==
    \A x \in Exchanges :
        /\ pc[x] \in {"arriving", "admitted", "held"} => ~Decided(side[x], x)
        /\ side[x] = "request" => ~Decided("response", x)
        /\ side[x] = "response" => LetThrough(x)

\* A step that leaves the verdicts, and lets no answered hook begin again.
LEMMA RightsKept ==
    ASSUME Rights, UNCHANGED <<verdict, side>>,
           \A x \in Exchanges : pc'[x] \in {"arriving", "admitted", "held"}
                                => pc[x] \in {"arriving", "admitted", "held"}
    PROVE  Rights'
<1> QED
  BY DEF Rights, Decided, LetThrough

\* The rendezvous is a decision, and leaves the exchange answered.
LEMMA TakeDecides ==
    ASSUME TypeOK, Rights, NEW s \in Sides, NEW x \in Exchanges,
           NEW v \in Onward \cup Refusals, Take(s, x, v), UNCHANGED side
    PROVE  Decide(s, x, v) /\ Rights'
<1>1. side[x] = s /\ pc[x] = "held" /\ verdict' = [verdict EXCEPT ![s][x] = v]
  BY DEF Take, Held, Give
<1>2. Decide(s, x, v)
  BY <1>1 DEF Rights, Decide
<1>3. pc' = [pc EXCEPT ![x] = "decided"]
  BY DEF Take
<1>4. \A r \in Sides, y \in Exchanges : ~(r = s /\ y = x) => verdict'[r][y] = verdict[r][y]
  BY <1>1 DEF TypeOK
<1>5. Rights'
  BY <1>1, <1>3, <1>4 DEF Rights, Decided, LetThrough, TypeOK, Sides
<1> QED
  BY <1>2, <1>5

\* So is what a hook answers by itself.
LEMMA ArrivalDecides ==
    ASSUME TypeOK, Rights, NEW x \in Exchanges, NEW v \in Onward \cup Refusals,
           pc[x] = "arriving", Give(side[x], x, v), GoOn(x, side[x], v)
    PROVE  Decide(side[x], x, v) /\ Rights'
<1>1. Decide(side[x], x, v)
  BY DEF Rights, Decide, Give
<1>2. \A r \in Sides, y \in Exchanges :
        verdict'[r][y] = IF r = side[x] /\ y = x THEN v ELSE verdict[r][y]
  BY DEF Give, TypeOK
<1>3. CASE side[x] = "request" /\ v \in Onward
  <2>1. /\ side' = [side EXCEPT ![x] = "response"]
        /\ pc' = [pc EXCEPT ![x] = "arriving"]
    BY <1>3 DEF GoOn
  <2>2. ~Decided("response", x)
    BY <1>3 DEF Rights
  <2> QED
    BY <1>1, <1>2, <1>3, <2>1, <2>2 DEF Rights, Decided, LetThrough, TypeOK, Sides
<1>4. CASE ~(side[x] = "request" /\ v \in Onward)
  <2>1. UNCHANGED side /\ pc' = [pc EXCEPT ![x] = "finished"]
    BY <1>4 DEF GoOn
  <2> QED
    BY <1>1, <1>2, <2>1 DEF Rights, Decided, LetThrough, TypeOK, Sides
<1> QED
  BY <1>3, <1>4

\* Every step of the hooks, the console and the watcher is a step of
\* ExchangeVerdicts or changes no verdict.
LEMMA RightsStep ==
    ASSUME TypeOK, Rights, [Next]_vars
    PROVE  Rights' /\ [VerdictNext]_verdict
<1>1. ASSUME NEW x \in Exchanges, \/ PassThrough(x) \/ HookFails(x)
      PROVE  Rights' /\ [VerdictNext]_verdict
  <2>1. PICK v \in {"passed", "failed"} : /\ Give(side[x], x, v) /\ GoOn(x, side[x], v)
                                          /\ pc[x] = "arriving"
    BY <1>1 DEF PassThrough, HookFails
  <2>2. v \in Onward \cup Refusals /\ side[x] \in Sides
    BY DEF Onward, Refusals, TypeOK
  <2>3. Decide(side[x], x, v) /\ Rights'
    BY <2>1, <2>2, ArrivalDecides
  <2> QED
    BY <2>2, <2>3 DEF VerdictNext
<1>2. ASSUME NEW x \in Exchanges, GiveUp(x) PROVE Rights' /\ [VerdictNext]_verdict
  <2>1. side[x] \in Sides /\ "gaveup" \in Onward \cup Refusals
    BY DEF TypeOK, Refusals
  <2>2. Take(side[x], x, "gaveup") /\ UNCHANGED side
    BY <1>2 DEF GiveUp, Take, Held
  <2>3. Decide(side[x], x, "gaveup") /\ Rights'
    BY <2>1, <2>2, TakeDecides
  <2> QED
    BY <2>1, <2>3 DEF VerdictNext
<1>3. ASSUME NEW x \in Exchanges, \/ Admit(x) \/ Register(x) \/ CloseDone(x) \/ UpstreamFails(x)
      PROVE  Rights' /\ [VerdictNext]_verdict
  <2>1. UNCHANGED <<verdict, side>>
    BY <1>3 DEF Admit, Register, CloseDone, UpstreamFails
  <2>2. \A y \in Exchanges : pc'[y] \in {"arriving", "admitted", "held"}
                             => pc[y] \in {"arriving", "admitted", "held"}
    BY <1>3 DEF Admit, Register, CloseDone, UpstreamFails, TypeOK
  <2> QED
    BY <2>1, <2>2, RightsKept
<1>4. ASSUME NEW x \in Exchanges, Unregister(x) PROVE Rights' /\ [VerdictNext]_verdict
  <2>1. UNCHANGED verdict
    BY <1>4 DEF Unregister
  <2>2. CASE side[x] = "request" /\ verdict[side[x]][x] \in Onward
    <3>1. /\ side' = [side EXCEPT ![x] = "response"]
          /\ pc' = [pc EXCEPT ![x] = "arriving"]
      BY <1>4, <2>2 DEF Unregister, GoOn
    <3> QED
      BY <2>1, <2>2, <3>1 DEF Rights, Decided, LetThrough, TypeOK, Sides
  <2>3. CASE ~(side[x] = "request" /\ verdict[side[x]][x] \in Onward)
    <3>1. UNCHANGED side /\ pc' = [pc EXCEPT ![x] = "finished"]
      BY <1>4, <2>3 DEF Unregister, GoOn
    <3> QED
      BY <2>1, <3>1 DEF Rights, Decided, LetThrough, TypeOK
  <2> QED
    BY <2>2, <2>3
<1>5. ASSUME NEW u \in Users, OpStep(u) PROVE Rights' /\ [VerdictNext]_verdict
  <2>1. CASE Answer(u)
    <3>1. op[u].x \in Exchanges /\ op[u].side \in Sides
      BY <2>1, OpTyped DEF Answer
    <3>2. Offer(u) \in Onward \cup Refusals
      BY <2>1 DEF Answer, Offer, Item, Onward, Refusals, TypeOK, Ops, OpIdle
    <3>3. Take(op[u].side, op[u].x, Offer(u)) /\ UNCHANGED side
      BY <2>1 DEF Answer
    <3>4. Decide(op[u].side, op[u].x, Offer(u)) /\ Rights'
      BY <3>1, <3>2, <3>3, TakeDecides
    <3> QED
      BY <3>1, <3>2, <3>4 DEF VerdictNext
  <2>2. CASE ~Answer(u)
    <3>1. UNCHANGED <<verdict, side, pc>>
      BY <1>5, <2>2 DEF OpStep, LookUp, Claim, ClaimRefused, BuildWithBody, ReadItemBody,
                ReplaceItemBody, BadForward, Built, AnswerTooLate, hookVars
    <3> QED
      BY <3>1, RightsKept
  <2> QED
    BY <2>1, <2>2
<1>6. CASE WatcherStep
  <2>1. CASE Release
    <3>1. release.now \in Exchanges /\ release.side \in Sides
      BY <2>1, ReleaseTyped DEF Release
    <3>2. Item(release.side, release.now) \in Onward \cup Refusals
      BY DEF Item, Onward
    <3>3. Take(release.side, release.now, Item(release.side, release.now)) /\ UNCHANGED side
      BY <2>1 DEF Release
    <3>4. Decide(release.side, release.now, Item(release.side, release.now)) /\ Rights'
      BY <3>1, <3>2, <3>3, TakeDecides
    <3> QED
      BY <3>1, <3>2, <3>4 DEF VerdictNext
  <2>2. CASE ~Release
    <3>1. UNCHANGED <<verdict, side, pc>>
      BY <1>6, <2>2 DEF WatcherStep, Collect, SideReleased, ReleaseTooLate, Released, Pick,
                        hookVars
    <3> QED
      BY <3>1, RightsKept
  <2> QED
    BY <2>1, <2>2
<1>7. ASSUME NEW next \in Opening, ProjectChange(next) PROVE Rights' /\ [VerdictNext]_verdict
  <2>1. UNCHANGED <<verdict, side, pc>>
    BY <1>7 DEF ProjectChange, hookVars
  <2> QED
    BY <2>1, RightsKept
<1>8. CASE UNCHANGED vars
  <2>1. UNCHANGED <<verdict, side, pc>>
    BY <1>8 DEF vars
  <2> QED
    BY <2>1, RightsKept
<1> QED
  BY <1>1, <1>2, <1>3, <1>4, <1>5, <1>6, <1>7, <1>8 DEF Next, HookStep

\* Intercept implements ExchangeVerdicts: one verdict for a request, then one
\* for its response, and none is ever changed, for any number of exchanges
\* and of those who answer them.
THEOREM OneVerdict == Spec => OneVerdictEach
<1>1. Init => Rights /\ VerdictInit
  BY DEF Init, Rights, VerdictInit, NoVerdicts, Decided, Sides
<1>2. TypeOK /\ Rights /\ [Next]_vars => Rights' /\ [VerdictNext]_verdict
  BY RightsStep
<1> QED
  BY <1>1, <1>2, TypeCorrect, PTL DEF Spec, OneVerdictEach, VerdictSpec
=============================================================================
