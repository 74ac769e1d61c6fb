----------------------- MODULE ConversationLeaseProofs -----------------------
(***************************************************************************)
(* Theorems about ConversationLease for any number of turns, any TTL,      *)
(* renewal interval and retry limits, and any number of late commands.     *)
(***************************************************************************)
EXTENDS ConversationLease, TLAPS

Granted == {m \in Managers : Working(m) /\ sinceGrant[m] < TTL}

\* A renew task belongs to a running turn, which has one until it gives up.
RenewerInv ==
    \A m \in Managers :
        /\ renewing[m] <=> Working(m) /\ ~giveUp[m]
        /\ renewing[m] => renewFailures[m] < MaxRenewRetries

\* A young grant owns the key, and the key lives at least until the grant ages.
GrantInv ==
    \A m \in Managers :
        Working(m) /\ sinceGrant[m] < TTL => key = m /\ ttl >= TTL - sinceGrant[m]

\* A release that is still on its way belongs to a turn that is over.
LateInv == \A c \in late : c.op = "release" => phase[c.by] = "done"

\* A live renew task is at most its failed rounds and the current wait away
\* from its last acknowledged grant.
AgeInv ==
    \A m \in Managers :
        renewing[m] =>
            sinceGrant[m] <= renewFailures[m] * (RenewInterval + MaxLag)
                             + (RenewInterval - timer[m])

\* A manager that has not tried yet owns nothing and has failed at nothing.
FreshInv ==
    \A m \in Managers :
        phase[m] = "new" =>
            key # m /\ ~giveUp[m] /\ renewFailures[m] = 0
            /\ \A c \in late : c.by # m

\* While a turn trusts its lease, the count of failed checks is below the
\* threshold and at most one behind the failures that happened.
ChecksInv ==
    \A m \in Managers :
        /\ phase[m] \in {"new", "held"} => checkFailures[m] < FailureThreshold
        /\ failedChecks[m] <= checkFailures[m] + 1
        /\ checkFailures[m] <= failedChecks[m]
        /\ windowAge[m] = NoWindow => checkFailures[m] = 0

IInv ==
    /\ TypeOK
    /\ RenewerInv
    /\ GrantInv
    /\ LateInv
    /\ AgeInv
    /\ FreshInv
    /\ ChecksInv

-----------------------------------------------------------------------------
\* The arithmetic of retry rounds that the age bound needs.
LEMMA Rounds ==
    /\ RenewInterval + MaxLag \in Nat
    /\ GiveUpTime \in Nat
    /\ AgeCap \in Nat /\ AgeCap > TTL /\ AgeCap > GiveUpTime
    /\ \A n \in Nat : n * (RenewInterval + MaxLag) \in Nat
    /\ \A n \in Nat : (n + 1) * (RenewInterval + MaxLag)
                        = n * (RenewInterval + MaxLag) + RenewInterval + MaxLag
    /\ \A n \in Nat : n < MaxRenewRetries =>
                        (n + 1) * (RenewInterval + MaxLag) <= GiveUpTime
<1> USE LeaseAssumption DEF LeaseAssumption
<1>1. RenewInterval + MaxLag \in Nat
  OBVIOUS
<1>2. ASSUME NEW a \in Nat, NEW b \in Nat, NEW g \in Nat
      PROVE  /\ a * g \in Nat
             /\ (a + 1) * g = a * g + g
             /\ a < b => (a + 1) * g <= b * g
  <2>1. /\ a * g \in Nat
        /\ (a + 1) * g = a * g + g
    OBVIOUS
  <2>2. ASSUME a < b PROVE (a + 1) * g <= b * g
    <3>1. PICK d \in Nat : b = (a + 1) + d
      BY <2>2, b - (a + 1) \in Nat, b = (a + 1) + (b - (a + 1))
    <3>2. b * g = (a + 1) * g + d * g
      BY <3>1
    <3>3. d * g \in Nat /\ (a + 1) * g \in Nat
      OBVIOUS
    <3>4. QED
      BY <3>2, <3>3
  <2>3. QED
    BY <2>1, <2>2
<1>3. GiveUpTime \in Nat
  BY <1>1, <1>2 DEF GiveUpTime
<1>4. AgeCap \in Nat /\ AgeCap > TTL /\ AgeCap > GiveUpTime
  BY <1>3 DEF AgeCap
<1>5. \A n \in Nat : n < MaxRenewRetries =>
                        (n + 1) * (RenewInterval + MaxLag) <= GiveUpTime
  BY <1>1, <1>2 DEF GiveUpTime
<1>6. QED
  BY <1>1, <1>2, <1>3, <1>4, <1>5

LEMMA InitIInv == Init => IInv
<1> SUFFICES ASSUME Init PROVE IInv
  OBVIOUS
<1> USE LeaseAssumption, Rounds DEF LeaseAssumption, Init
<1>1. TypeOK
  BY DEF TypeOK, Commands, NoWindow
<1>2. RenewerInv /\ GrantInv /\ LateInv /\ AgeInv /\ FreshInv /\ ChecksInv
  BY DEF RenewerInv, GrantInv, LateInv, AgeInv, FreshInv, ChecksInv, Working, NoWindow
<1>3. QED
  BY <1>1, <1>2 DEF IInv

-----------------------------------------------------------------------------
\* A command given up on joins the late ones or vanishes.
LEMMA AbandonLate ==
    ASSUME NEW op \in {"acquire", "renew", "release"}, NEW m \in Managers,
           late \subseteq Commands, Abandon(op, m)
    PROVE  late' \subseteq late \cup {[op |-> op, by |-> m]} /\ late' \subseteq Commands
BY DEF Abandon, Commands

\* acquire() grants only a free key, and a free key has no young grant.
LEMMA AcquireIInv ==
    ASSUME IInv, NEW m \in Managers, acquire(m)
    PROVE  IInv'
<1> USE LeaseAssumption, Rounds DEF LeaseAssumption, IInv
<1>1. CASE key = NoOwner
  <2>1. /\ key' = m /\ ttl' = TTL
        /\ phase' = [phase EXCEPT ![m] = "held"]
        /\ renewing' = [renewing EXCEPT ![m] = TRUE]
        /\ timer' = [timer EXCEPT ![m] = RenewInterval]
        /\ sinceGrant' = [sinceGrant EXCEPT ![m] = 0]
        /\ phase[m] = "new"
        /\ UNCHANGED <<late, renewFailures, giveUp, checkFailures, windowAge, failedChecks>>
    BY <1>1 DEF acquire, AcquireScript, checkVars
  <2>2. TypeOK'
    BY <2>1 DEF TypeOK
  <2>3. ~giveUp[m] /\ renewFailures[m] = 0
    BY <2>1 DEF FreshInv
  <2>4. RenewerInv'
    BY <2>1, <2>3 DEF RenewerInv, Working, TypeOK
  <2>5. GrantInv'
    BY <1>1, <2>1 DEF GrantInv, Working, TypeOK
  <2>6. LateInv'
    BY <2>1 DEF LateInv, TypeOK, Commands
  <2>7. AgeInv'
    BY <2>1, <2>3 DEF AgeInv, TypeOK
  <2>8. FreshInv' /\ ChecksInv'
    BY <2>1 DEF FreshInv, ChecksInv, TypeOK
  <2>9. QED
    BY <2>2, <2>4, <2>5, <2>6, <2>7, <2>8
<1>2. CASE key # NoOwner
  <2>1. key # m
    BY <1>2 DEF acquire, FreshInv
  <2>2. /\ phase' = [phase EXCEPT ![m] = "done"]
        /\ phase[m] = "new"
        /\ UNCHANGED <<key, ttl, late, renewing, timer, renewFailures, giveUp,
                       checkFailures, windowAge, failedChecks, sinceGrant>>
    BY <1>2, <2>1 DEF acquire, AcquireScript, checkVars
  <2>3. QED
    BY <2>2 DEF TypeOK, RenewerInv, GrantInv, LateInv, AgeInv, FreshInv, ChecksInv,
           Working
<1>3. QED
  BY <1>1, <1>2

LEMMA AcquireErrorIInv ==
    ASSUME IInv, NEW m \in Managers, AcquireError(m)
    PROVE  IInv'
<1>1. /\ late' \subseteq late \cup {[op |-> "acquire", by |-> m]}
      /\ late' \subseteq Commands
  BY AbandonLate DEF AcquireError, IInv, TypeOK
<1>2. /\ phase' = [phase EXCEPT ![m] = "done"]
      /\ phase[m] = "new"
      /\ UNCHANGED <<key, ttl, renewing, timer, renewFailures, giveUp,
                     checkFailures, windowAge, failedChecks, sinceGrant>>
  BY DEF AcquireError, renewVars, checkVars
<1>3. QED
  BY <1>1, <1>2
     DEF IInv, TypeOK, RenewerInv, GrantInv, LateInv, AgeInv, FreshInv, ChecksInv,
         Working

\* A successful round restarts the age; another owner ends the task.
LEMMA RenewIInv ==
    ASSUME IInv, NEW m \in Managers, Renew(m)
    PROVE  IInv'
<1> USE LeaseAssumption, Rounds DEF LeaseAssumption, IInv
<1>1. /\ renewing[m]
      /\ UNCHANGED <<key, late, phase, checkFailures, windowAge, failedChecks>>
  BY DEF Renew, RenewDue, RenewScript, checkVars
<1>2. CASE key = m
  <2>1. /\ ttl' = TTL
        /\ timer' = [timer EXCEPT ![m] = RenewInterval]
        /\ renewFailures' = [renewFailures EXCEPT ![m] = 0]
        /\ sinceGrant' = [sinceGrant EXCEPT ![m] = 0]
        /\ UNCHANGED <<renewing, giveUp>>
    BY <1>2 DEF Renew, RenewScript
  <2>2. TypeOK'
    BY <1>1, <1>2, <2>1 DEF TypeOK
  <2>3. RenewerInv'
    BY <1>1, <2>1 DEF RenewerInv, Working, TypeOK
  <2>4. GrantInv'
    BY <1>1, <1>2, <2>1 DEF GrantInv, Working, TypeOK
  <2>5. AgeInv'
    BY <2>1 DEF AgeInv, TypeOK
  <2>6. LateInv' /\ FreshInv' /\ ChecksInv'
    BY <1>1, <2>1 DEF LateInv, FreshInv, ChecksInv, TypeOK
  <2>7. QED
    BY <2>2, <2>3, <2>4, <2>5, <2>6
<1>3. CASE key # m
  <2>1. /\ renewing' = [renewing EXCEPT ![m] = FALSE]
        /\ giveUp' = [giveUp EXCEPT ![m] = TRUE]
        /\ UNCHANGED <<ttl, timer, renewFailures, sinceGrant>>
    BY <1>3 DEF Renew, RenewScript
  <2>2. phase[m] # "new"
    BY <1>1 DEF RenewerInv, Working
  <2>3. QED
    BY <1>1, <2>1, <2>2
       DEF TypeOK, RenewerInv, GrantInv, LateInv, AgeInv, FreshInv, ChecksInv,
           Working
<1>4. QED
  BY <1>2, <1>3

\* A failed round adds one round to the age bound, or ends the task.
LEMMA RenewErrorIInv ==
    ASSUME IInv, NEW m \in Managers, RenewError(m)
    PROVE  IInv'
<1> USE LeaseAssumption DEF LeaseAssumption, IInv
<1>1. /\ renewing[m] /\ timer[m] <= 0
      /\ UNCHANGED <<key, ttl, phase, checkFailures, windowAge, failedChecks, sinceGrant>>
      /\ timer' = [timer EXCEPT ![m] = RenewInterval]
      /\ late' \subseteq late \cup {[op |-> "renew", by |-> m]}
      /\ late' \subseteq Commands
  BY AbandonLate DEF RenewError, RenewDue, checkVars, TypeOK
<1>2. /\ Working(m) /\ renewFailures[m] < MaxRenewRetries
      /\ renewFailures[m] \in Nat
  BY <1>1 DEF RenewerInv, TypeOK
<1>3. renewFailures' = [renewFailures EXCEPT ![m] = renewFailures[m] + 1]
  BY <1>2 DEF RenewError
<1>4. \/ /\ renewFailures[m] + 1 < MaxRenewRetries
         /\ UNCHANGED <<renewing, giveUp>>
      \/ /\ renewing' = [renewing EXCEPT ![m] = FALSE]
         /\ giveUp' = [giveUp EXCEPT ![m] = TRUE]
  BY <1>2 DEF RenewError, RenewExhausted
<1>5. TypeOK'
  <2>1. renewFailures' \in [Managers -> 0..MaxRenewRetries]
    BY <1>2, <1>3 DEF TypeOK
  <2>2. timer' \in [Managers -> (-MaxLag)..RenewInterval]
    BY <1>1 DEF TypeOK
  <2>3. renewing' \in [Managers -> BOOLEAN] /\ giveUp' \in [Managers -> BOOLEAN]
    BY <1>4 DEF TypeOK
  <2>4. QED
    BY <1>1, <2>1, <2>2, <2>3 DEF TypeOK
<1>6. RenewerInv'
  BY <1>1, <1>2, <1>3, <1>4 DEF RenewerInv, Working, TypeOK
<1>7. GrantInv' /\ LateInv'
  <2>1. GrantInv'
    BY <1>1 DEF GrantInv, Working
  <2>2. LateInv'
    BY <1>1 DEF LateInv
  <2>3. QED
    BY <2>1, <2>2
<1>8. FreshInv' /\ ChecksInv'
  BY <1>1, <1>2, <1>3, <1>4 DEF FreshInv, ChecksInv, Working, TypeOK
<1>9. AgeInv'
  <2>1. SUFFICES ASSUME NEW n \in Managers, renewing'[n]
                 PROVE  sinceGrant'[n] <= renewFailures'[n] * (RenewInterval + MaxLag)
                                          + (RenewInterval - timer'[n])
    BY DEF AgeInv
  <2>2. CASE n = m
    <3>1. sinceGrant[m] <= renewFailures[m] * (RenewInterval + MaxLag)
                           + (RenewInterval - timer[m])
      BY <1>1 DEF AgeInv
    <3>2. RenewInterval - timer[m] <= RenewInterval + MaxLag
      BY DEF TypeOK
    <3>3. renewFailures'[m] = renewFailures[m] + 1 /\ timer'[m] = RenewInterval
      BY <1>1, <1>3 DEF TypeOK
    <3>4. (renewFailures[m] + 1) * (RenewInterval + MaxLag)
            = renewFailures[m] * (RenewInterval + MaxLag) + RenewInterval + MaxLag
          /\ renewFailures[m] * (RenewInterval + MaxLag) \in Nat
      BY <1>2, Rounds
    <3>5. sinceGrant[m] \in Nat /\ timer[m] \in Int
      BY Rounds DEF TypeOK
    <3>6. QED
      BY <1>1, <2>2, <3>1, <3>2, <3>3, <3>4, <3>5
  <2>3. CASE n # m
    BY <1>1, <1>3, <1>4, <2>1, <2>3 DEF AgeInv, TypeOK
  <2>4. QED
    BY <2>2, <2>3
<1>10. QED
  BY <1>5, <1>6, <1>7, <1>8, <1>9

\* An ownership check moves the turn and its own counters only.
LEMMA CheckIInv ==
    ASSUME IInv, NEW m \in Managers, Check(m)
    PROVE  IInv'
<1> USE LeaseAssumption DEF LeaseAssumption, IInv
<1>1. /\ phase[m] = "held"
      /\ phase' = phase \/ phase' = [phase EXCEPT ![m] = "lost"]
      /\ UNCHANGED <<key, ttl, late, renewing, timer, renewFailures, giveUp, sinceGrant>>
  BY DEF Check, OwnedGivenUp, OwnedAnswered, OwnedError, Lose, serverVars, renewVars
<1>2. /\ checkFailures' \in [Managers -> 0..FailureThreshold]
      /\ failedChecks' \in [Managers -> 0..FailureThreshold + 1]
      /\ windowAge' \in [Managers -> NoWindow..FailureWindow + 1]
  <2>1. CASE OwnedGivenUp(m)
    BY <2>1 DEF OwnedGivenUp, checkVars, TypeOK
  <2>2. CASE OwnedAnswered(m)
    BY <2>2 DEF OwnedAnswered, TypeOK, NoWindow
  <2>3. CASE OwnedError(m)
    <3>1. /\ checkFailures[m] < FailureThreshold
          /\ failedChecks[m] <= FailureThreshold
      BY <1>1 DEF ChecksInv, TypeOK
    <3>2. QED
      BY <2>3, <3>1 DEF OwnedError, TypeOK, NoWindow
  <2>4. QED
    BY <2>1, <2>2, <2>3 DEF Check
<1>3. TypeOK'
  BY <1>1, <1>2 DEF TypeOK
<1>4. RenewerInv' /\ GrantInv' /\ LateInv' /\ AgeInv' /\ FreshInv'
  <2>1. /\ \A n \in Managers : Working(n)' <=> Working(n)
        /\ \A n \in Managers : phase'[n] \in {"new", "done"} => phase'[n] = phase[n]
        /\ \A n \in Managers : phase[n] \in {"new", "done"} => phase'[n] = phase[n]
    BY <1>1 DEF Working, TypeOK
  <2>2. RenewerInv' /\ GrantInv'
    BY <1>1, <2>1 DEF RenewerInv, GrantInv
  <2>3. LateInv' /\ FreshInv'
    BY <1>1, <2>1 DEF LateInv, FreshInv, TypeOK, Commands
  <2>4. AgeInv'
    BY <1>1 DEF AgeInv
  <2>5. QED
    BY <2>2, <2>3, <2>4
<1>5. ChecksInv'
  <2>1. CASE OwnedGivenUp(m)
    BY <2>1 DEF OwnedGivenUp, Lose, checkVars, TypeOK, ChecksInv
  <2>2. CASE OwnedAnswered(m)
    BY <1>1, <2>2 DEF OwnedAnswered, TypeOK, ChecksInv
  <2>3. CASE OwnedError(m)
    BY <2>3 DEF OwnedError, Lose, ChecksExhausted, TypeOK, ChecksInv, NoWindow
  <2>4. QED
    BY <2>1, <2>2, <2>3 DEF Check
<1>6. QED
  BY <1>3, <1>4, <1>5

\* The end of a turn, whichever way Redis hears of it: only the server part
\* differs between a release, a failed release and a crash.
LEMMA TurnOverIInv ==
    ASSUME IInv, NEW m \in Managers, TurnOver(m), StopRenewer(m),
           late' \subseteq Commands,
           \A c \in late' : c \in late \/ c.by = m,
           \/ UNCHANGED <<key, ttl>>
           \/ key = m /\ key' = NoOwner /\ ttl' = 0
    PROVE  IInv'
<1> USE LeaseAssumption DEF LeaseAssumption, IInv
<1>1. /\ phase[m] \in {"held", "lost"}
      /\ phase' = [phase EXCEPT ![m] = "done"]
      /\ renewing' = [renewing EXCEPT ![m] = FALSE]
      /\ timer' = [timer EXCEPT ![m] = RenewInterval]
      /\ renewFailures' = [renewFailures EXCEPT ![m] = 0]
      /\ giveUp' = [giveUp EXCEPT ![m] = FALSE]
      /\ checkFailures' = [checkFailures EXCEPT ![m] = 0]
      /\ windowAge' = [windowAge EXCEPT ![m] = NoWindow]
      /\ failedChecks' = [failedChecks EXCEPT ![m] = 0]
      /\ sinceGrant' = [sinceGrant EXCEPT ![m] = AgeCap]
  BY DEF TurnOver, StopRenewer
<1>2. TypeOK'
  <2>1. /\ timer' \in [Managers -> (-MaxLag)..RenewInterval]
        /\ renewFailures' \in [Managers -> 0..MaxRenewRetries]
    BY <1>1 DEF TypeOK
  <2>2. sinceGrant' \in [Managers -> 0..AgeCap]
    <3>1. AgeCap \in Nat
      BY Rounds
    <3>2. QED
      BY <1>1, <3>1 DEF TypeOK
  <2>3. /\ windowAge' \in [Managers -> NoWindow..FailureWindow + 1]
        /\ checkFailures' \in [Managers -> 0..FailureThreshold]
        /\ failedChecks' \in [Managers -> 0..FailureThreshold + 1]
    BY <1>1 DEF TypeOK, NoWindow
  <2>4. /\ phase' \in [Managers -> {"new", "held", "lost", "done"}]
        /\ renewing' \in [Managers -> BOOLEAN]
        /\ giveUp' \in [Managers -> BOOLEAN]
    BY <1>1 DEF TypeOK
  <2>5. key' \in Managers \cup {NoOwner} /\ ttl' \in 0..TTL /\ (key' = NoOwner <=> ttl' = 0)
    BY DEF TypeOK
  <2>6. QED
    BY <2>1, <2>2, <2>3, <2>4, <2>5 DEF TypeOK
<1>3. \A n \in Managers : n # m =>
         /\ phase'[n] = phase[n] /\ renewing'[n] = renewing[n]
         /\ timer'[n] = timer[n] /\ renewFailures'[n] = renewFailures[n]
         /\ giveUp'[n] = giveUp[n] /\ checkFailures'[n] = checkFailures[n]
         /\ windowAge'[n] = windowAge[n] /\ failedChecks'[n] = failedChecks[n]
         /\ sinceGrant'[n] = sinceGrant[n]
  BY <1>1 DEF TypeOK
<1>4. /\ phase'[m] = "done" /\ ~renewing'[m] /\ ~giveUp'[m]
      /\ checkFailures'[m] = 0 /\ failedChecks'[m] = 0
  BY <1>1 DEF TypeOK
<1>5. RenewerInv'
  BY <1>3, <1>4 DEF RenewerInv, Working
<1>6. GrantInv'
  BY <1>3, <1>4 DEF GrantInv, Working
<1>7. AgeInv'
  BY <1>3, <1>4 DEF AgeInv
<1>8. LateInv'
  BY <1>3, <1>4 DEF LateInv, TypeOK, Commands
<1>9. FreshInv' /\ ChecksInv'
  <2>1. FreshInv'
    BY <1>3, <1>4 DEF FreshInv
  <2>2. ChecksInv'
    BY <1>3, <1>4 DEF ChecksInv
  <2>3. QED
    BY <2>1, <2>2
<1>10. QED
  BY <1>2, <1>5, <1>6, <1>7, <1>8, <1>9

LEMMA EndIInv ==
    ASSUME IInv, NEW m \in Managers, release(m) \/ ReleaseError(m) \/ Crash(m)
    PROVE  IInv'
<1> USE DEF IInv
<1>1. CASE release(m)
  <2>1. /\ late' \subseteq Commands
        /\ \A c \in late' : c \in late \/ c.by = m
    <3>1. CASE RenewDue(m)
      <4>1. late' \subseteq late \cup {[op |-> "renew", by |-> m]} /\ late' \subseteq Commands
        BY <1>1, <3>1, AbandonLate DEF release, TypeOK
      <4>2. QED
        BY <4>1
    <3>2. CASE ~RenewDue(m)
      BY <1>1, <3>2 DEF release, TypeOK
    <3>3. QED
      BY <3>1, <3>2
  <2>2. QED
    BY <1>1, <2>1, TurnOverIInv DEF release, ReleaseScript
<1>2. CASE ReleaseError(m)
  <2>1. late' \subseteq late \cup {[op |-> "release", by |-> m]} /\ late' \subseteq Commands
    BY <1>2, AbandonLate DEF ReleaseError, TypeOK
  <2>2. \A c \in late' : c \in late \/ c.by = m
    BY <2>1
  <2>3. QED
    BY <1>2, <2>1, <2>2, TurnOverIInv DEF ReleaseError
<1>3. CASE Crash(m)
  BY <1>3, TurnOverIInv DEF Crash, StopRenewer, serverVars, TypeOK
<1>4. QED
  BY <1>1, <1>2, <1>3

\* A late command of a turn can no longer take the key from anybody else.
LEMMA LateIInv ==
    ASSUME IInv, NEW c \in Commands, ApplyLate(c) \/ DropLate(c)
    PROVE  IInv'
<1> USE LeaseAssumption DEF LeaseAssumption, IInv
<1>1. /\ c \in late
      /\ late' = late \ {c}
      /\ UNCHANGED <<phase, renewing, timer, renewFailures, giveUp, checkFailures,
                     windowAge, failedChecks, sinceGrant>>
  BY DEF ApplyLate, DropLate, renewVars, checkVars
<1>2. c.by \in Managers /\ phase[c.by] # "new"
  BY <1>1 DEF FreshInv, Commands, TypeOK
<1>3. \/ UNCHANGED <<key, ttl>>
      \/ key = NoOwner /\ key' = c.by /\ ttl' = TTL
      \/ key = c.by /\ key' = key /\ ttl' = TTL
      \/ key = c.by /\ phase[c.by] = "done" /\ key' = NoOwner /\ ttl' = 0
  BY <1>1 DEF ApplyLate, DropLate, AcquireScript, RenewScript, ReleaseScript, LateInv
<1>4. TypeOK'
  <2>1. key' \in Managers \cup {NoOwner} /\ ttl' \in 0..TTL /\ (key' = NoOwner <=> ttl' = 0)
    BY <1>2, <1>3 DEF TypeOK
  <2>2. QED
    BY <1>1, <2>1 DEF TypeOK
<1>5. RenewerInv' /\ AgeInv' /\ ChecksInv' /\ LateInv'
  <2>1. RenewerInv' /\ ChecksInv'
    BY <1>1 DEF RenewerInv, ChecksInv, Working
  <2>2. AgeInv'
    BY <1>1 DEF AgeInv
  <2>3. LateInv'
    BY <1>1 DEF LateInv
  <2>4. QED
    BY <2>1, <2>2, <2>3
<1>6. GrantInv'
  <2>1. SUFFICES ASSUME NEW n \in Managers, Working(n), sinceGrant[n] < TTL
                 PROVE  key' = n /\ ttl' >= TTL - sinceGrant[n]
    BY <1>1 DEF GrantInv, Working
  <2>2. key = n /\ ttl >= TTL - sinceGrant[n] /\ sinceGrant[n] \in Nat
    BY <2>1, Rounds DEF GrantInv, TypeOK
  <2>3. QED
    BY <1>3, <2>1, <2>2 DEF Working
<1>7. FreshInv'
  BY <1>1, <1>2, <1>3 DEF FreshInv
<1>8. QED
  BY <1>4, <1>5, <1>6, <1>7

\* A tick takes one from the key's life and adds one to every age, so the sum
\* that GrantInv states is kept; the punctuality of renewals bounds the timers.
LEMMA TickIInv ==
    ASSUME IInv, Tick
    PROVE  IInv'
<1> USE LeaseAssumption DEF LeaseAssumption, IInv
<1>1. /\ ttl' = IF ttl > 0 THEN ttl - 1 ELSE 0
      /\ key' = IF ttl > 1 THEN key ELSE NoOwner
      /\ UNCHANGED <<late, phase, renewing, renewFailures, giveUp,
                     checkFailures, failedChecks>>
  BY DEF Tick
<1>2. \A m \in Managers :
         /\ timer'[m] = IF renewing[m] THEN timer[m] - 1 ELSE timer[m]
         /\ renewing[m] => timer[m] > -MaxLag
         /\ sinceGrant'[m] = IF sinceGrant[m] < AgeCap THEN sinceGrant[m] + 1 ELSE AgeCap
         /\ windowAge'[m] = NoWindow <=> windowAge[m] = NoWindow
  BY DEF Tick, TypeOK, NoWindow
<1>3. TypeOK'
  <2>1. timer' \in [Managers -> (-MaxLag)..RenewInterval]
    BY DEF Tick, TypeOK
  <2>2. windowAge' \in [Managers -> NoWindow..FailureWindow + 1]
    BY DEF Tick, TypeOK, NoWindow
  <2>3. sinceGrant' \in [Managers -> 0..AgeCap]
    BY Rounds DEF Tick, TypeOK
  <2>4. key' \in Managers \cup {NoOwner} /\ ttl' \in 0..TTL /\ (key' = NoOwner <=> ttl' = 0)
    BY <1>1 DEF TypeOK
  <2>5. QED
    BY <1>1, <2>1, <2>2, <2>3, <2>4 DEF TypeOK
<1>4. RenewerInv' /\ ChecksInv' /\ LateInv'
  <2>1. RenewerInv' /\ LateInv'
    BY <1>1 DEF RenewerInv, LateInv, Working
  <2>2. ChecksInv'
    BY <1>1, <1>2 DEF ChecksInv
  <2>3. QED
    BY <2>1, <2>2
<1>5. FreshInv'
  BY <1>1 DEF FreshInv
<1>6. GrantInv'
  <2>1. SUFFICES ASSUME NEW n \in Managers, Working(n), sinceGrant'[n] < TTL
                 PROVE  key' = n /\ ttl' >= TTL - sinceGrant'[n]
    BY <1>1 DEF GrantInv, Working
  <2>2. sinceGrant'[n] = sinceGrant[n] + 1 /\ sinceGrant[n] \in Nat
    <3>1. AgeCap \in Nat /\ AgeCap > TTL
      BY Rounds
    <3>2. sinceGrant[n] \in Nat /\ sinceGrant'[n] =
              IF sinceGrant[n] < AgeCap THEN sinceGrant[n] + 1 ELSE AgeCap
      BY <1>2, <3>1 DEF TypeOK
    <3>3. QED
      BY <2>1, <3>1, <3>2
  <2>3. key = n /\ ttl >= TTL - sinceGrant[n]
    BY <2>1, <2>2 DEF GrantInv
  <2>4. QED
    BY <1>1, <2>1, <2>2, <2>3 DEF TypeOK
<1>7. AgeInv'
  <2>1. SUFFICES ASSUME NEW n \in Managers, renewing[n]
                 PROVE  sinceGrant'[n] <= renewFailures[n] * (RenewInterval + MaxLag)
                                          + (RenewInterval - timer'[n])
    BY <1>1 DEF AgeInv
  <2>2. sinceGrant[n] <= renewFailures[n] * (RenewInterval + MaxLag)
                         + (RenewInterval - timer[n])
    BY <2>1 DEF AgeInv
  <2>3. /\ renewFailures[n] * (RenewInterval + MaxLag) \in Nat
        /\ timer[n] \in Int /\ sinceGrant[n] \in Nat /\ AgeCap \in Nat
        /\ sinceGrant'[n] <= sinceGrant[n] + 1
        /\ sinceGrant'[n] \in Nat
    BY <1>2, Rounds DEF TypeOK
  <2>4. timer'[n] = timer[n] - 1
    BY <1>2, <2>1
  <2>5. QED
    BY <2>2, <2>3, <2>4
<1>8. QED
  BY <1>3, <1>4, <1>5, <1>6, <1>7

LEMMA NextIInv == IInv /\ [Next]_vars => IInv'
<1> SUFFICES ASSUME IInv, [Next]_vars PROVE IInv'
  OBVIOUS
<1>1. ASSUME NEW m \in Managers, acquire(m) \/ AcquireError(m) PROVE IInv'
  BY <1>1, AcquireIInv, AcquireErrorIInv
<1>2. ASSUME NEW m \in Managers, Renew(m) \/ RenewError(m) PROVE IInv'
  BY <1>2, RenewIInv, RenewErrorIInv
<1>3. ASSUME NEW m \in Managers, Check(m) PROVE IInv'
  BY <1>3, CheckIInv
<1>4. ASSUME NEW m \in Managers, release(m) \/ ReleaseError(m) \/ Crash(m) PROVE IInv'
  BY <1>4, EndIInv
<1>5. ASSUME NEW c \in Commands, ApplyLate(c) \/ DropLate(c) PROVE IInv'
  BY <1>5, LateIInv
<1>6. CASE Tick
  BY <1>6, TickIInv
<1>7. CASE UNCHANGED vars
  <2>1. UNCHANGED <<key, ttl, late, phase, renewing, timer, renewFailures, giveUp,
                    checkFailures, windowAge, failedChecks, sinceGrant>>
    BY <1>7 DEF vars, serverVars, renewVars, checkVars
  <2>2. QED
    BY <2>1 DEF IInv, TypeOK, RenewerInv, GrantInv, LateInv, AgeInv, FreshInv,
                ChecksInv, Working
<1>8. QED
  BY <1>1, <1>2, <1>3, <1>4, <1>5, <1>6, <1>7 DEF Next

LEMMA InductiveInvariant == Spec => []IInv
BY InitIInv, NextIInv, PTL DEF Spec
-----------------------------------------------------------------------------
\* Every variable keeps its range; in particular the key exists exactly while
\* it has time to live.
THEOREM TypeCorrect == Spec => []TypeOK
<1>1. IInv => TypeOK
  BY DEF IInv
<1>2. QED
  BY <1>1, InductiveInvariant, PTL

\* A turn whose last renewal round succeeded owns the key, whatever the other
\* turns and their late commands do, as long as a renewal is less than
\* TTL - RenewInterval late.
THEOREM HealthyKeeps == Spec => []HealthyHolderKeepsKey
<1>1. IInv => HealthyHolderKeepsKey
  <2> SUFFICES ASSUME IInv, NEW m \in Managers, renewing[m], renewFailures[m] = 0
               PROVE  key = m
    BY DEF HealthyHolderKeepsKey
  <2>1. Working(m)
    BY DEF IInv, RenewerInv
  <2>2. sinceGrant[m] <= 0 * (RenewInterval + MaxLag) + (RenewInterval - timer[m])
    BY DEF IInv, AgeInv
  <2>3. timer[m] \in (-MaxLag)..RenewInterval /\ AgeCap \in Nat /\ sinceGrant[m] \in 0..AgeCap
    BY Rounds DEF IInv, TypeOK
  <2>4. sinceGrant[m] < TTL
    BY <2>2, <2>3, LeaseAssumption DEF LeaseAssumption
  <2>5. QED
    BY <2>1, <2>4 DEF IInv, GrantInv
<1>2. QED
  BY <1>1, InductiveInvariant, PTL

\* A turn that runs without its key, and does not know, has been doing so for
\* at most GiveUpTime - TTL ticks.
THEOREM LossBounded == Spec => []UnnoticedLossBounded
<1>1. IInv => UnnoticedLossBounded
  <2> SUFFICES ASSUME IInv, NEW m \in Managers, Working(m), ~giveUp[m], key # m
               PROVE  sinceGrant[m] \in TTL..GiveUpTime
    BY DEF UnnoticedLossBounded
  <2> USE LeaseAssumption DEF LeaseAssumption
  <2>1. renewing[m] /\ renewFailures[m] < MaxRenewRetries /\ renewFailures[m] \in Nat
    BY DEF IInv, RenewerInv, TypeOK
  <2>2. sinceGrant[m] <= renewFailures[m] * (RenewInterval + MaxLag)
                         + (RenewInterval - timer[m])
    BY <2>1 DEF IInv, AgeInv
  <2>3. timer[m] \in (-MaxLag)..RenewInterval
    BY DEF IInv, TypeOK
  <2>4. sinceGrant[m] \in Nat
    <3>1. AgeCap \in Nat
      BY Rounds
    <3>2. QED
      BY <3>1 DEF IInv, TypeOK
  <2>5. /\ renewFailures[m] * (RenewInterval + MaxLag) \in Nat
        /\ renewFailures[m] * (RenewInterval + MaxLag) + RenewInterval + MaxLag <= GiveUpTime
        /\ GiveUpTime \in Nat
    <3>1. (renewFailures[m] + 1) * (RenewInterval + MaxLag)
            = renewFailures[m] * (RenewInterval + MaxLag) + RenewInterval + MaxLag
      BY <2>1, Rounds
    <3>2. (renewFailures[m] + 1) * (RenewInterval + MaxLag) <= GiveUpTime
      BY <2>1, Rounds
    <3>3. QED
      BY <2>1, <3>1, <3>2, Rounds
  <2>6. sinceGrant[m] <= GiveUpTime
    BY <2>2, <2>3, <2>4, <2>5
  <2>7. sinceGrant[m] >= TTL
    BY <2>4 DEF IInv, GrantInv
  <2>8. QED
    BY <2>4, <2>5, <2>6, <2>7
<1>2. QED
  BY <1>1, InductiveInvariant, PTL

\* A turn that holds its lease has seen at most as many failed checks in a row as
\* the threshold says: for any threshold and window the eleventh of ten is the last.
THEOREM StopsSoon == Spec => []LostSoonAfterThreshold
<1>1. IInv => LostSoonAfterThreshold
  BY LeaseAssumption DEF LeaseAssumption, IInv, TypeOK, ChecksInv, LostSoonAfterThreshold
<1> QED
  BY <1>1, InductiveInvariant, PTL
-----------------------------------------------------------------------------
\* All young grants are the key owner's: there is at most one.
LEMMA GrantedIsOwner ==
    ASSUME IInv
    PROVE  Granted = {} \/ (key \in Managers /\ Granted = {key})
BY DEF IInv, GrantInv, Granted

\* A step changes the set of young grants by granting into the empty set, by
\* ending the only grant, or not at all.
LEMMA GrantedStep ==
    ASSUME IInv, IInv', [Next]_vars
    PROVE  \/ Granted' = Granted
           \/ \E m \in Managers : Granted = {} /\ Granted' = {m}
           \/ \E m \in Managers : Granted = {m} /\ Granted' = {}
<1>1. \/ Granted = {}
      \/ key \in Managers /\ Granted = {key}
  BY GrantedIsOwner
<1>2. \/ Granted' = {}
      \/ key' \in Managers /\ Granted' = {key'}
  BY DEF IInv, GrantInv, Granted
<1>3. key' = key \/ key = NoOwner \/ key' = NoOwner
  <2>1. ASSUME NEW m \in Managers, acquire(m) \/ AcquireError(m)
        PROVE  key' = key \/ key = NoOwner
    BY <2>1 DEF acquire, AcquireError, AcquireScript
  <2>2. ASSUME NEW m \in Managers, Renew(m) \/ RenewError(m) \/ Check(m)
        PROVE  key' = key
    BY <2>2 DEF Renew, RenewError, RenewScript, Check, OwnedGivenUp, OwnedAnswered,
                OwnedError, serverVars
  <2>3. ASSUME NEW m \in Managers, release(m) \/ ReleaseError(m) \/ Crash(m)
        PROVE  key' = key \/ key' = NoOwner
    BY <2>3 DEF release, ReleaseError, Crash, ReleaseScript, serverVars
  <2>4. ASSUME NEW c \in Commands, ApplyLate(c) \/ DropLate(c)
        PROVE  key' = key \/ key = NoOwner \/ key' = NoOwner
    BY <2>4 DEF ApplyLate, DropLate, AcquireScript, RenewScript, ReleaseScript
  <2>5. CASE Tick
    BY <2>5 DEF Tick
  <2>6. CASE UNCHANGED vars
    BY <2>6 DEF vars, serverVars
  <2>7. QED
    BY <2>1, <2>2, <2>3, <2>4, <2>5, <2>6 DEF Next
<1>4. /\ key = NoOwner => Granted = {}
      /\ key' = NoOwner => Granted' = {}
  BY <1>1, <1>2, LeaseAssumption DEF LeaseAssumption
<1>5. QED
  BY <1>1, <1>2, <1>3, <1>4

\* The lease is exclusive within the TTL: every behaviour, with crashes, lost
\* and late commands, is a behaviour of LeaseService.
THEOREM Exclusive == Spec => ImplementsLeaseService
<1>1. Init => Service!Init
  BY DEF Init, Service!Init, Working
<1>2. IInv /\ IInv' /\ [Next]_vars => [Service!Next]_Granted
  BY GrantedStep DEF Service!Next, Service!Grant, Service!End, Granted
<1>3. QED
  BY <1>1, <1>2, InductiveInvariant, PTL DEF Spec, ImplementsLeaseService, Service!Spec, Granted
-----------------------------------------------------------------------------
\* A release, sent in time or applied late, never takes the key of a turn that
\* is not over.
THEOREM FreesOnlyOwn == Spec => OnlyOwnerOrTtlFrees
<1>1. ASSUME IInv, Next, NEW m \in Managers, key = m, key' # m
      PROVE  ttl = 1 \/ phase'[m] = "done"
  <2> USE LeaseAssumption DEF LeaseAssumption
  <2>1. key # NoOwner /\ ttl >= 1
    BY <1>1 DEF IInv, TypeOK
  <2>2. ASSUME NEW n \in Managers, acquire(n) \/ AcquireError(n)
        PROVE  FALSE
    BY <1>1, <2>1, <2>2 DEF acquire, AcquireError, AcquireScript
  <2>3. ASSUME NEW n \in Managers, Renew(n) \/ RenewError(n) \/ Check(n)
        PROVE  FALSE
    BY <1>1, <2>3 DEF Renew, RenewError, RenewScript, Check, OwnedGivenUp, OwnedAnswered,
                OwnedError, serverVars
  <2>4. ASSUME NEW n \in Managers, release(n) \/ ReleaseError(n) \/ Crash(n)
        PROVE  phase'[m] = "done"
    <3>1. n = m
      BY <1>1, <2>4 DEF release, ReleaseError, Crash, ReleaseScript, serverVars
    <3>2. phase' = [phase EXCEPT ![n] = "done"]
      BY <2>4 DEF release, ReleaseError, Crash, TurnOver
    <3>3. QED
      BY <1>1, <3>1, <3>2 DEF IInv, TypeOK
  <2>5. ASSUME NEW c \in Commands, ApplyLate(c) \/ DropLate(c)
        PROVE  phase'[m] = "done"
    <3>1. c \in late /\ c.op = "release" /\ c.by = m /\ phase' = phase
      BY <1>1, <2>1, <2>5 DEF ApplyLate, DropLate, AcquireScript, RenewScript, ReleaseScript
    <3>2. QED
      BY <1>1, <3>1 DEF IInv, LateInv
  <2>6. CASE Tick
    BY <1>1, <2>1, <2>6 DEF Tick, IInv, TypeOK
  <2>7. QED
    BY <1>1, <2>2, <2>3, <2>4, <2>5, <2>6 DEF Next
<1>2. ASSUME IInv, [Next]_vars
      PROVE  [\A m \in Managers :
                key = m /\ key' # m => ttl = 1 \/ phase'[m] = "done"]_vars
  BY <1>1, <1>2
<1>3. QED
  BY <1>2, InductiveInvariant, PTL DEF Spec, OnlyOwnerOrTtlFrees

\* No turn is stopped by a transient Redis error: FailureThreshold checks in a
\* row have to fail first.
THEOREM StopsOnEvidence == Spec => LostOnlyOnEvidence
<1>1. ASSUME IInv, Next, NEW m \in Managers, phase[m] = "held", phase'[m] = "lost"
      PROVE  giveUp[m] \/ key # m \/ failedChecks'[m] >= FailureThreshold
  <2> USE LeaseAssumption DEF LeaseAssumption
  <2>1. ASSUME NEW n \in Managers, \/ acquire(n) \/ AcquireError(n) \/ release(n)
                                   \/ ReleaseError(n) \/ Crash(n)
        PROVE  FALSE
    <3>1. PICK p \in {"held", "done"} : phase' = [phase EXCEPT ![n] = p]
      BY <2>1 DEF acquire, AcquireError, release, ReleaseError, Crash, TurnOver
    <3>2. QED
      BY <1>1, <3>1 DEF IInv, TypeOK
  <2>2. ASSUME NEW n \in Managers, Renew(n) \/ RenewError(n)
        PROVE  FALSE
    BY <1>1, <2>2 DEF Renew, RenewError
  <2>3. ASSUME NEW n \in Managers, Check(n)
        PROVE  giveUp[m] \/ key # m \/ failedChecks'[m] >= FailureThreshold
    <3>1. n = m
      BY <1>1, <2>3 DEF Check, OwnedGivenUp, OwnedAnswered, OwnedError, Lose, IInv, TypeOK
    <3>2. CASE OwnedError(m)
      <4>1. checkFailures'[m] >= FailureThreshold
        BY <1>1, <3>2 DEF OwnedError, ChecksExhausted
      <4>2. failedChecks'[m] >= checkFailures'[m]
        BY <1>1, <3>2 DEF OwnedError, IInv, TypeOK, ChecksInv, NoWindow
      <4>3. checkFailures'[m] \in Nat /\ failedChecks'[m] \in Nat
        BY <1>1, <3>2 DEF OwnedError, IInv, TypeOK, NoWindow
      <4>4. QED
        BY <4>1, <4>2, <4>3
    <3>3. CASE OwnedGivenUp(m) \/ OwnedAnswered(m)
      BY <1>1, <3>3 DEF OwnedGivenUp, OwnedAnswered
    <3>4. QED
      BY <2>3, <3>1, <3>2, <3>3 DEF Check
  <2>4. CASE Tick \/ \E c \in Commands : ApplyLate(c) \/ DropLate(c)
    BY <1>1, <2>4 DEF Tick, ApplyLate, DropLate
  <2>5. QED
    BY <1>1, <2>1, <2>2, <2>3, <2>4 DEF Next
<1>2. ASSUME IInv, [Next]_vars
      PROVE  [\A m \in Managers : JustlyLost(m)]_vars
  BY <1>1, <1>2 DEF JustlyLost
<1>3. QED
  BY <1>2, InductiveInvariant, PTL DEF Spec, LostOnlyOnEvidence

\* So the threshold is kept from both sides (is_owned()).
THEOREM StopsAtThreshold == Spec => LostAtThreshold
<1>1. [\A m \in Managers : JustlyLost(m)]_vars /\ LostSoonAfterThreshold' =>
          [LostSoonAfterThreshold' /\ \A m \in Managers : JustlyLost(m)]_vars
  OBVIOUS
<1> QED
  BY <1>1, StopsOnEvidence, StopsSoon, PTL DEF LostOnlyOnEvidence, LostAtThreshold
=============================================================================
