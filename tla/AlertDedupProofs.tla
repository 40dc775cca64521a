-------------------------- MODULE AlertDedupProofs --------------------------
(***************************************************************************)
(* Theorems about AlertDedup, for any number of evaluators, vehicles and   *)
(* rules, any window and any number of crashes.                            *)
(*                                                                         *)
(* TypeOK supplies the facts about time the others rest on (no claim, key  *)
(* or row is in the future).  With it two of the other properties are      *)
(* inductive; that claims are exclusive also needs to know when the key    *)
(* still stands for its claim.                                             *)
(***************************************************************************)
EXTENDS AlertDedup, WellFoundedInduction, TLAPS

\* The loop of evaluate always has a lowest rule left to handle.
LEMMA LowestRule ==
    ASSUME NEW T, T \subseteq Nat, T # {}
    PROVE  \E r \in T : \A q \in T : r <= q
<1> DEFINE R == OpToRel(<, Nat)
<1>1. IsWellFoundedOn(R, Nat)
  BY NatLessThanWellFounded, Zenon
<1>2. \A x, y \in Nat : x < y => <<x, y>> \in R
  BY DEF OpToRel
<1> HIDE DEF R
<1>3. PICK x \in T : \A y \in T : ~(<<y, x>> \in R)
  BY <1>1, WFMin, Zenon
<1>4. ASSUME NEW y \in T PROVE x <= y
  <2>1. x \in Nat /\ y \in Nat
    OBVIOUS
  <2>2. ~(y < x)
    BY <1>2, <1>3, <2>1, Zenon
  <2> QED BY <2>1, <2>2
<1> QED BY <1>4

\* An evaluator at work is at one of the rules it still has to do, and its key exists.
LEMMA CurrentFacts ==
    ASSUME TypeOK, NEW e \in Evaluator, pc[e] # "idle"
    PROVE  Current(e) \in todo[e] /\ KeyOf(e) \in Key
<1>1. todo[e] \subseteq Rule /\ todo[e] # {} /\ todo[e] \subseteq Nat
  BY WindowAssumption, Zenon DEF TypeOK
<1>2. \E r \in todo[e] : \A q \in todo[e] : r <= q
  BY <1>1, LowestRule
<1>3. Current(e) \in todo[e]
  BY <1>2 DEF Current
<1>4. vehicle[e] \in Vehicle
  BY DEF TypeOK
<1> QED
  BY <1>1, <1>3, <1>4 DEF KeyOf, Key

\* What leaving a rule behind does to the evaluators.
LEMMA NextRuleFacts ==
    ASSUME TypeOK, NEW e \in Evaluator, pc[e] # "idle", NextRule(e)
    PROVE  /\ pc' \in [Evaluator -> {"idle", "claim", "insert", "release", "publish"}]
           /\ vehicle' \in [Evaluator -> Vehicle]
           /\ todo' \in [Evaluator -> SUBSET Rule]
           /\ \A x \in Evaluator : pc'[x] # "idle" => todo'[x] # {}
           /\ pc'[e] \in {"idle", "claim"}
           /\ \A x \in Evaluator \ {e} : pc'[x] = pc[x] /\ KeyOf(x)' = KeyOf(x)
<1>1. Current(e) \in todo[e]
  BY CurrentFacts
<1>2. todo' = [todo EXCEPT ![e] = todo[e] \ {Current(e)}] /\ vehicle' = vehicle
  BY DEF NextRule
<1>3. pc' = [pc EXCEPT ![e] = IF todo[e] = {Current(e)} THEN "idle" ELSE "claim"]
  BY DEF NextRule
<1>4. todo' \in [Evaluator -> SUBSET Rule]
  BY <1>2 DEF TypeOK
<1>5. pc' \in [Evaluator -> {"idle", "claim", "insert", "release", "publish"}]
  BY <1>3 DEF TypeOK
<1>6. pc'[e] \in {"idle", "claim"}
  BY <1>3 DEF TypeOK
<1>7. \A x \in Evaluator \ {e} : pc'[x] = pc[x] /\ todo'[x] = todo[x]
  BY <1>2, <1>3 DEF TypeOK
<1>8. \A x \in Evaluator \ {e} : KeyOf(x)' = KeyOf(x)
  BY <1>2, <1>7 DEF KeyOf, Current
<1>9. pc'[e] # "idle" => todo'[e] # {}
  <2>1. todo'[e] = todo[e] \ {Current(e)}
    BY <1>2 DEF TypeOK
  <2>2. pc'[e] # "idle" => todo[e] # {Current(e)}
    BY <1>3 DEF TypeOK
  <2> QED BY <1>1, <2>1, <2>2
<1> QED
  BY <1>2, <1>4, <1>5, <1>6, <1>7, <1>8, <1>9 DEF TypeOK

-----------------------------------------------------------------------------
(* The type invariant                                                      *)

\* The type invariant holds initially.
LEMMA TypeInit == Init => TypeOK
  BY WindowAssumption DEF Init, TypeOK, Time, None, keyVars

\* Every step of an evaluator, the clock or a crash keeps the type invariant.
LEMMA TypeStep == ASSUME TypeOK, [Next]_vars PROVE TypeOK'
<1> USE WindowAssumption DEF Time, keyVars
<1>0. now \in 0..now
  BY DEF TypeOK
<1>1. ASSUME NEW e \in Evaluator, Evaluate(e) PROVE TypeOK'
  <2>1. PICK v \in Vehicle, fired \in (SUBSET Rule) \ {{}} :
           /\ vehicle' = [vehicle EXCEPT ![e] = v]
           /\ todo' = [todo EXCEPT ![e] = fired]
    BY <1>1, Zenon DEF Evaluate
  <2>2. vehicle' \in [Evaluator -> Vehicle] /\ todo' \in [Evaluator -> SUBSET Rule]
    BY <2>1 DEF TypeOK
  <2>3. /\ pc' \in [Evaluator -> {"idle", "claim", "insert", "release", "publish"}]
        /\ \A x \in Evaluator \ {e} : pc'[x] = pc[x]
    BY <1>1 DEF Evaluate, TypeOK
  <2>4. todo'[e] = fired /\ fired # {} /\ \A x \in Evaluator \ {e} : todo'[x] = todo[x]
    BY <2>1 DEF TypeOK
  <2>5. \A x \in Evaluator : pc'[x] # "idle" => todo'[x] # {}
    BY <2>3, <2>4 DEF TypeOK
  <2> QED BY <1>1, <2>2, <2>3, <2>5 DEF Evaluate, TypeOK
<1>2. ASSUME NEW e \in Evaluator, Claim(e) PROVE TypeOK'
  <2>1. key' = [key EXCEPT ![KeyOf(e)] = now]
    BY <1>2 DEF Claim, TryClaimAlertDedup
  <2>2. key' \in [Key -> 0..now \cup {None}]
    BY <1>0, <2>1, Zenon DEF TypeOK
  <2>3. \A k \in Key : key'[k] # None => now < key'[k] + Window
    BY <2>1 DEF TypeOK
  <2>4. /\ pc' \in [Evaluator -> {"idle", "claim", "insert", "release", "publish"}]
        /\ \A x \in Evaluator : pc'[x] # "idle" => todo'[x] # {}
        /\ claimAt' \in [Evaluator -> 0..now]
    BY <1>2 DEF Claim, TypeOK
  <2>5. owner' \in [Key -> Evaluator \cup {Nobody}] /\ robbed' \subseteq Evaluator
    BY <1>2, Zenon DEF Claim, TypeOK
  <2> QED BY <1>2, <2>2, <2>3, <2>4, <2>5 DEF Claim, TypeOK
<1>3. ASSUME NEW e \in Evaluator, NotClaimed(e) \/ Publish(e) PROVE TypeOK'
  <2>1. pc[e] # "idle" /\ NextRule(e)
    BY <1>3 DEF NotClaimed, Publish
  <2> QED BY <1>3, <2>1, NextRuleFacts DEF NotClaimed, Publish, TypeOK
<1>4. ASSUME NEW e \in Evaluator, ClaimAnswerLost(e) PROVE TypeOK'
  <2>1. pc[e] # "idle" /\ NextRule(e) /\ key' = [key EXCEPT ![KeyOf(e)] = now]
    BY <1>4 DEF ClaimAnswerLost, TryClaimAlertDedup
  <2>2. key' \in [Key -> 0..now \cup {None}]
    BY <1>0, <2>1, Zenon DEF TypeOK
  <2>3. \A k \in Key : key'[k] # None => now < key'[k] + Window
    BY <2>1 DEF TypeOK
  <2>4. owner' \in [Key -> Evaluator \cup {Nobody}]
    BY <1>4, Zenon DEF ClaimAnswerLost, TypeOK
  <2> QED BY <1>4, <2>1, <2>2, <2>3, <2>4, NextRuleFacts DEF ClaimAnswerLost, TypeOK
<1>5. ASSUME NEW k, InsertAlert(k) \/ rows' = rows PROVE rows' \in [Key -> SUBSET (0..now)]
  <2>1. now \in 0..now
    BY DEF TypeOK
  <2> QED BY <1>5, <2>1 DEF InsertAlert, TypeOK
<1>6. ASSUME NEW e \in Evaluator, InsertOk(e) \/ InsertFails(e) PROVE TypeOK'
  <2>1. rows' \in [Key -> SUBSET (0..now)]
    BY <1>5, <1>6 DEF InsertOk, InsertFails
  <2>2. /\ pc' \in [Evaluator -> {"idle", "claim", "insert", "release", "publish"}]
        /\ \A x \in Evaluator : pc'[x] # "idle" => todo'[x] # {}
    BY <1>6 DEF InsertOk, InsertFails, TypeOK
  <2> QED BY <1>6, <2>1, <2>2 DEF InsertOk, InsertFails, TypeOK
<1>7. ASSUME NEW e \in Evaluator, ReleaseAlertDedup(KeyOf(e))
      PROVE  /\ key' \in [Key -> 0..now \cup {None}]
             /\ \A k \in Key : key'[k] # None => now < key'[k] + Window
             /\ owner' \in [Key -> Evaluator \cup {Nobody}] /\ robbed' \subseteq Evaluator
  <2>1. key' \in [Key -> 0..now \cup {None}] /\ owner' \in [Key -> Evaluator \cup {Nobody}]
    BY <1>7, Zenon DEF ReleaseAlertDedup, TypeOK
  <2>2. \A k \in Key : key'[k] # None => now < key'[k] + Window
    BY <1>7 DEF ReleaseAlertDedup, TypeOK
  <2>3. robbed' \subseteq Evaluator
    BY <1>7 DEF ReleaseAlertDedup, TypeOK
  <2> QED BY <2>1, <2>2, <2>3
<1>8. ASSUME NEW e \in Evaluator, Release(e) \/ ReleaseRetried(e) \/ ReleaseFails(e) PROVE TypeOK'
  <2>1. CASE Release(e)
    <3>1. pc[e] # "idle" /\ NextRule(e) /\ ReleaseAlertDedup(KeyOf(e))
      BY <2>1 DEF Release
    <3> QED BY <1>7, <2>1, <3>1, NextRuleFacts DEF Release, TypeOK
  <2>2. CASE ReleaseRetried(e)
    <3>1. ReleaseAlertDedup(KeyOf(e)) /\ UNCHANGED <<now, evalVars, rows, crashes>>
      BY <2>2 DEF ReleaseRetried
    <3> QED BY <1>7, <3>1 DEF TypeOK, evalVars
  <2>3. CASE ReleaseFails(e)
    <3>1. pc[e] # "idle" /\ NextRule(e)
      BY <2>3 DEF ReleaseFails
    <3>2. owner' \in [Key -> Evaluator \cup {Nobody}]
      BY <2>3 DEF ReleaseFails, TypeOK
    <3> QED BY <2>3, <3>1, <3>2, NextRuleFacts DEF ReleaseFails, TypeOK
  <2> QED BY <1>8, <2>1, <2>2, <2>3
<1>9. CASE Crash
  BY <1>9 DEF Crash, TypeOK
<1>10. CASE Tick
  <2>1. now' = now + 1 /\ now' \in Time /\ now \in Nat
    BY <1>10 DEF Tick, TypeOK
  <2>2. claimAt' \in [Evaluator -> 0..now'] /\ rows' \in [Key -> SUBSET (0..now')]
    BY <1>10, <2>1 DEF Tick, evalVars, TypeOK
  <2>3. key' \in [Key -> 0..now' \cup {None}] /\ owner' \in [Key -> Evaluator \cup {Nobody}]
    BY <1>10, <2>1 DEF Tick, TypeOK
  <2>4. \A k \in Key : key'[k] # None => now' < key'[k] + Window
    BY <1>10, <2>1 DEF Tick, TypeOK, None
  <2> QED BY <1>10, <2>1, <2>2, <2>3, <2>4 DEF Tick, evalVars, TypeOK
<1>11. CASE UNCHANGED vars
  BY <1>11 DEF vars, evalVars, TypeOK
<1> QED
  BY <1>1, <1>2, <1>3, <1>4, <1>6, <1>8, <1>9, <1>10, <1>11 DEF Next

\* TypeOK holds for every number of evaluators, vehicles, rules and crashes:
\* no claim, key or row lies in the future, and keys respect their TTL.
THEOREM TypeCorrect == Spec => []TypeOK
<1>1. TypeOK /\ [Next]_vars => TypeOK'
  BY TypeStep
<1> QED
  BY <1>1, TypeInit, PTL DEF Spec

-----------------------------------------------------------------------------
(* Claims are exclusive                                                    *)

\* As long as its claim has not expired and nobody deleted its key, the key an
\* evaluator works on is the one it has set.
Holds(e, k) == owner[k] = e /\ key[k] = claimAt[e]
KeyStands ==
    \A k \in Key : \A e \in Evaluator :
        AtWork(e, k) /\ e \notin robbed /\ now < claimAt[e] + Window => Holds(e, k)

\* Steps in which evaluators only go on with their claims or end them, and keys go
\* only from those who are robbed.
GoesOn(e, k) ==
    AtWork(e, k)' =>
        /\ AtWork(e, k) /\ claimAt'[e] = claimAt[e] /\ (e \in robbed => e \in robbed')
        /\ Holds(e, k) => e \in robbed' \/ Holds(e, k)'
LEMMA StandsFrame ==
    ASSUME KeyStands, ClaimsExclusive, now' = now,
           \A k \in Key : \A e \in Evaluator : GoesOn(e, k)
    PROVE  KeyStands' /\ ClaimsExclusive'
<1>1. KeyStands'
  BY DEF KeyStands, GoesOn
<1>2. ClaimsExclusive'
  BY DEF ClaimsExclusive, GoesOn
<1> QED BY <1>1, <1>2

\* The end of a rule takes its evaluator from work and leaves the others at it.
LEMMA NextRuleWork ==
    ASSUME TypeOK, NEW e \in Evaluator, pc[e] # "idle", NextRule(e),
           NEW x \in Evaluator, NEW k \in Key, AtWork(x, k)'
    PROVE  x # e /\ AtWork(x, k)
  BY NextRuleFacts DEF AtWork

\* Claims that are made in the presence of another were made after its end.
LEMMA ClaimKeepsApart ==
    ASSUME TypeOK, KeyStands, ClaimsExclusive, NEW e \in Evaluator, Claim(e)
    PROVE  KeyStands' /\ ClaimsExclusive'
<1>1. /\ pc[e] = "claim" /\ key[KeyOf(e)] = None /\ now' = now /\ robbed' = robbed \ {e}
      /\ KeyOf(e) \in Key
  BY CurrentFacts DEF Claim, TryClaimAlertDedup
<1>2. claimAt'[e] = now /\ \A x \in Evaluator \ {e} : claimAt'[x] = claimAt[x]
  BY DEF Claim, TypeOK
<1>3. \A x \in Evaluator : KeyOf(x)' = KeyOf(x)
  BY DEF Claim, KeyOf, Current
<1>4. \A x \in Evaluator \ {e} : \A k \in Key : AtWork(x, k)' <=> AtWork(x, k)
  BY <1>3 DEF Claim, TypeOK, AtWork
<1>5. \A k \in Key : AtWork(e, k)' <=> k = KeyOf(e)
  BY <1>3 DEF Claim, TypeOK, AtWork
<1>6. /\ key'[KeyOf(e)] = now /\ owner'[KeyOf(e)] = e
      /\ \A k \in Key \ {KeyOf(e)} : key'[k] = key[k] /\ owner'[k] = owner[k]
  BY <1>1 DEF Claim, TryClaimAlertDedup, TypeOK
<1>7. now \in Nat /\ Window \in Nat \ {0} /\ \A x \in Evaluator : claimAt[x] \in 0..now
  BY WindowAssumption DEF TypeOK, Time
<1>8. \A x \in Evaluator : AtWork(x, KeyOf(e)) => x \in robbed \/ claimAt[x] + Window <= now
  <2>1. \A x \in Evaluator : ~Holds(x, KeyOf(e))
    BY <1>1, <1>7 DEF Holds, None
  <2> QED BY <1>1, <1>7, <2>1 DEF KeyStands
<1>9. KeyStands'
  <2>1. ASSUME NEW k \in Key, NEW x \in Evaluator,
               AtWork(x, k)', x \notin robbed', now' < claimAt'[x] + Window
        PROVE  Holds(x, k)'
    <3>1. CASE x = e
      BY <1>2, <1>5, <1>6, <2>1, <3>1 DEF Holds
    <3>2. CASE x # e
      <4>1. AtWork(x, k) /\ x \notin robbed /\ now < claimAt[x] + Window
        BY <1>1, <1>2, <1>4, <2>1, <3>2
      <4>2. k # KeyOf(e)
        BY <1>7, <1>8, <4>1
      <4> QED BY <1>2, <1>6, <3>2, <4>1, <4>2 DEF KeyStands, Holds
    <3> QED BY <3>1, <3>2
  <2> QED BY <2>1 DEF KeyStands
<1>10. ClaimsExclusive'
  <2>1. ASSUME NEW k \in Key, NEW x \in Evaluator, NEW y \in Evaluator, x # y,
               AtWork(x, k)', AtWork(y, k)', claimAt'[x] <= claimAt'[y]
        PROVE  claimAt'[x] + Window <= claimAt'[y] \/ x \in robbed' \/ y \in robbed'
    <3>1. CASE x # e /\ y # e
      BY <1>1, <1>2, <1>4, <2>1, <3>1 DEF ClaimsExclusive
    <3>2. CASE y = e
      <4>1. AtWork(x, KeyOf(e)) /\ x # e
        BY <1>4, <1>5, <2>1, <3>2
      <4> QED BY <1>1, <1>2, <1>8, <3>2, <4>1
    <3>3. CASE x = e
      <4>1. AtWork(y, KeyOf(e)) /\ y # e
        BY <1>4, <1>5, <2>1, <3>3
      <4>2. y \in robbed \/ claimAt[y] + Window <= now
        BY <1>8, <4>1
      <4>3. now <= claimAt[y]
        BY <1>2, <2>1, <3>3, <4>1
      <4> QED BY <1>1, <1>7, <4>1, <4>2, <4>3
    <3> QED BY <3>1, <3>2, <3>3
  <2> QED BY <2>1 DEF ClaimsExclusive
<1> QED BY <1>9, <1>10

\* Every step keeps claims exclusive.
LEMMA ExclusiveStep ==
    ASSUME TypeOK, KeyStands, ClaimsExclusive, [Next]_vars
    PROVE  KeyStands' /\ ClaimsExclusive'
<1> USE DEF keyVars
<1>1. ASSUME NEW e \in Evaluator, Evaluate(e) PROVE KeyStands' /\ ClaimsExclusive'
  <2>1. ASSUME NEW k \in Key, NEW x \in Evaluator, AtWork(x, k)' PROVE AtWork(x, k)
    BY <1>1, <2>1 DEF Evaluate, AtWork, KeyOf, Current, TypeOK
  <2> QED BY <1>1, <2>1, StandsFrame DEF Evaluate, GoesOn, Holds
<1>2. ASSUME NEW e \in Evaluator, NotClaimed(e) \/ Publish(e) PROVE KeyStands' /\ ClaimsExclusive'
  <2>1. /\ pc[e] # "idle" /\ NextRule(e) /\ UNCHANGED <<now, claimAt, key, owner, robbed>>
    BY <1>2 DEF NotClaimed, Publish
  <2> QED BY <2>1, NextRuleWork, StandsFrame DEF GoesOn, Holds
<1>3. ASSUME NEW e \in Evaluator, ClaimAnswerLost(e) PROVE KeyStands' /\ ClaimsExclusive'
  <2>1. /\ pc[e] # "idle" /\ NextRule(e) /\ UNCHANGED <<now, claimAt, robbed>>
        /\ key[KeyOf(e)] = None
        /\ \A k \in Key \ {KeyOf(e)} : key'[k] = key[k] /\ owner'[k] = owner[k]
    BY <1>3 DEF ClaimAnswerLost, TryClaimAlertDedup, TypeOK
  <2>2. \A x \in Evaluator : ~Holds(x, KeyOf(e))
    BY <2>1 DEF Holds, None, TypeOK
  <2> QED BY <2>1, <2>2, NextRuleWork, StandsFrame DEF GoesOn, Holds
<1>4. ASSUME NEW e \in Evaluator, InsertOk(e) \/ InsertFails(e) PROVE KeyStands' /\ ClaimsExclusive'
  <2>1. UNCHANGED <<now, vehicle, todo, claimAt, key, owner, robbed>>
    BY <1>4 DEF InsertOk, InsertFails
  <2>2. ASSUME NEW k \in Key, NEW x \in Evaluator, AtWork(x, k)' PROVE AtWork(x, k)
    BY <1>4, <2>1, <2>2 DEF InsertOk, InsertFails, AtWork, KeyOf, Current, TypeOK
  <2> QED BY <2>1, <2>2, StandsFrame DEF GoesOn, Holds
<1>5. ASSUME NEW e \in Evaluator, Release(e) \/ ReleaseRetried(e)
      PROVE  KeyStands' /\ ClaimsExclusive'
  <2>1. /\ pc[e] # "idle" /\ ReleaseAlertDedup(KeyOf(e)) /\ UNCHANGED <<now, claimAt>>
        /\ NextRule(e) \/ UNCHANGED evalVars
    BY <1>5 DEF Release, ReleaseRetried, evalVars
  <2>2. \A k \in Key : \A x \in Evaluator : AtWork(x, k)' => AtWork(x, k)
    BY <2>1, NextRuleWork DEF AtWork, KeyOf, Current, evalVars
  <2>3. /\ robbed \subseteq robbed'
        /\ \A x \in Evaluator :
              owner[KeyOf(e)] = x /\ AtWork(x, KeyOf(e)) => x \in robbed'
        /\ \A k \in Key \ {KeyOf(e)} : key'[k] = key[k] /\ owner'[k] = owner[k]
    BY <2>1 DEF ReleaseAlertDedup, TypeOK
  <2> QED BY <2>1, <2>2, <2>3, StandsFrame DEF GoesOn, Holds
<1>6. ASSUME NEW e \in Evaluator, ReleaseFails(e) PROVE KeyStands' /\ ClaimsExclusive'
  <2>1. /\ pc[e] # "idle" /\ NextRule(e) /\ UNCHANGED <<now, claimAt, key, robbed>>
        /\ \A k \in Key : owner[k] = e \/ owner'[k] = owner[k]
    BY <1>6 DEF ReleaseFails, TypeOK
  <2> QED BY <2>1, NextRuleWork, StandsFrame DEF GoesOn, Holds
<1>7. CASE Crash
  <2>1. \A k \in Key : \A x \in Evaluator : ~AtWork(x, k)'
    BY <1>7 DEF Crash, AtWork
  <2> QED BY <2>1 DEF KeyStands, ClaimsExclusive
<1>8. CASE Tick
  <2>1. \A k \in Key : \A x \in Evaluator : AtWork(x, k)' <=> AtWork(x, k)
    BY <1>8 DEF Tick, evalVars, AtWork, KeyOf, Current
  <2>2. claimAt' = claimAt /\ robbed' = robbed /\ now' = now + 1 /\ now \in Nat
    BY <1>8 DEF Tick, evalVars, TypeOK, Time
  <2>3. ClaimsExclusive'
    BY <2>1, <2>2 DEF ClaimsExclusive
  <2>4. ASSUME NEW k \in Key, NEW x \in Evaluator,
               AtWork(x, k), x \notin robbed, now' < claimAt[x] + Window
        PROVE  Holds(x, k)'
    <3>1. claimAt[x] \in Nat /\ Window \in Nat
      BY WindowAssumption DEF TypeOK
    <3>2. now < claimAt[x] + Window
      BY <2>2, <2>4, <3>1
    <3>3. Holds(x, k)
      BY <2>4, <3>2 DEF KeyStands
    <3>4. ~(now' >= key[k] + Window)
      BY <2>2, <2>4, <3>1, <3>3 DEF Holds
    <3>5. key'[k] = key[k] /\ owner'[k] = owner[k]
      BY <1>8, <3>4 DEF Tick, TypeOK
    <3> QED BY <2>2, <3>3, <3>5 DEF Holds
  <2>5. KeyStands'
    BY <2>1, <2>2, <2>4 DEF KeyStands
  <2> QED BY <2>3, <2>5
<1>9. CASE UNCHANGED vars
  BY <1>9 DEF vars, evalVars, KeyStands, ClaimsExclusive, AtWork, Holds, KeyOf, Current
<1> QED
  BY <1>1, <1>2, <1>3, <1>4, <1>5, <1>6, <1>7, <1>8, <1>9, ClaimKeepsApart DEF Next

\* Whatever fails and whoever crashes, two evaluators are at work on one vehicle and
\* type only if the claim of the first had run out, or a late or repeated DEL has
\* taken the key of one of them.
THEOREM ClaimsAreExclusive == Spec => []ClaimsExclusive
<1>1. Init => KeyStands /\ ClaimsExclusive
  BY DEF Init, KeyStands, ClaimsExclusive, AtWork
<1>2. TypeOK /\ KeyStands /\ ClaimsExclusive /\ [Next]_vars => KeyStands' /\ ClaimsExclusive'
  BY ExclusiveStep
<1> QED
  BY <1>1, <1>2, TypeCorrect, PTL DEF Spec

-----------------------------------------------------------------------------
(* What keys and published alerts stand for                                *)

\* An insert that reports success leaves a row whose window was open then.
LEMMA InsertCovers ==
    ASSUME TypeOK, NEW k \in Key, InsertAlert(k)
    PROVE  /\ \E t \in rows'[k] : now < t + Window
           /\ \A j \in Key : rows[j] \subseteq rows'[j]
<1>1. CASE Conflicts(k)
  BY <1>1 DEF InsertAlert, Conflicts
<1>2. CASE ~Conflicts(k)
  <2>1. now \in rows'[k] /\ \A j \in Key : rows[j] \subseteq rows'[j]
    BY <1>2 DEF InsertAlert, TypeOK
  <2>2. now < now + Window
    BY WindowAssumption DEF TypeOK, Time
  <2> QED BY <2>1, <2>2
<1> QED BY <1>1, <1>2

Explained(k) ==
    \/ owner[k] = Nobody
    \/ \E e \in Evaluator : owner[k] = e /\ InFlight(e, k) /\ claimAt[e] = key[k]
    \/ \E t \in rows[k] : key[k] < t + Window

\* A step that leaves key k and its excuses alone, or leaves it behind.
LEMMA ExplainedFrame ==
    ASSUME NEW k \in Key, Explained(k), key'[k] = key[k], owner'[k] \in {owner[k], Nobody},
           rows[k] \subseteq rows'[k],
           \A e \in Evaluator :
              owner[k] = e /\ InFlight(e, k) =>
                  (InFlight(e, k)' /\ claimAt'[e] = claimAt[e]) \/ owner'[k] = Nobody
    PROVE  Explained(k)'
  BY DEF Explained

\* Every step leaves each held key with a claimer or a row to explain it.
LEMMA ExplainedStep ==
    ASSUME TypeOK, HeldKeyHasRow, [Next]_vars PROVE HeldKeyHasRow'
<1> SUFFICES ASSUME NEW k \in Key, key'[k] # None PROVE Explained(k)'
  BY DEF HeldKeyHasRow, Explained
<1> USE DEF keyVars
<1>0. key[k] # None => Explained(k)
  BY DEF HeldKeyHasRow, Explained
<1>1. ASSUME NEW e \in Evaluator, Evaluate(e) PROVE Explained(k)'
  <2>1. \A x \in Evaluator : InFlight(x, k) => InFlight(x, k)'
    BY <1>1 DEF Evaluate, InFlight, KeyOf, Current, TypeOK
  <2> QED BY <1>0, <1>1, <2>1, ExplainedFrame DEF Evaluate
<1>2. ASSUME NEW e \in Evaluator, Claim(e) PROVE Explained(k)'
  <2>1. /\ pc'[e] = "insert" /\ claimAt'[e] = now /\ KeyOf(e)' = KeyOf(e)
        /\ \A x \in Evaluator \ {e} : pc'[x] = pc[x] /\ claimAt'[x] = claimAt[x]
                                      /\ KeyOf(x)' = KeyOf(x)
    BY <1>2 DEF Claim, TypeOK, KeyOf, Current
  <2>2. CASE k = KeyOf(e)
    <3>1. key'[k] = now /\ owner'[k] = e
      BY <1>2, <2>2 DEF Claim, TryClaimAlertDedup, TypeOK
    <3> QED BY <2>1, <2>2, <3>1 DEF Explained, InFlight
  <2>3. CASE k # KeyOf(e)
    <3>1. key'[k] = key[k] /\ owner'[k] = owner[k]
      BY <1>2, <2>3 DEF Claim, TryClaimAlertDedup, TypeOK
    <3>2. \A x \in Evaluator : InFlight(x, k) => InFlight(x, k)' /\ claimAt'[x] = claimAt[x]
      BY <2>1, <2>3 DEF InFlight
    <3> QED BY <1>0, <1>2, <3>1, <3>2, ExplainedFrame DEF Claim
  <2> QED BY <2>2, <2>3
<1>3. ASSUME NEW e \in Evaluator, pc[e] \in {"claim", "publish"}, NextRule(e),
             claimAt' = claimAt
      PROVE  \A x \in Evaluator : InFlight(x, k) => InFlight(x, k)' /\ claimAt'[x] = claimAt[x]
  BY <1>3, NextRuleFacts DEF InFlight
<1>4. ASSUME NEW e \in Evaluator, NotClaimed(e) \/ Publish(e) PROVE Explained(k)'
  <2>1. \A x \in Evaluator : InFlight(x, k) => InFlight(x, k)' /\ claimAt'[x] = claimAt[x]
    BY <1>3, <1>4 DEF NotClaimed, Publish
  <2> QED BY <1>0, <1>4, <2>1, ExplainedFrame DEF NotClaimed, Publish
<1>5. ASSUME NEW e \in Evaluator, ClaimAnswerLost(e) PROVE Explained(k)'
  <2>1. \A x \in Evaluator : InFlight(x, k) => InFlight(x, k)' /\ claimAt'[x] = claimAt[x]
    BY <1>3, <1>5 DEF ClaimAnswerLost
  <2>2. CASE k = KeyOf(e)
    BY <1>5, <2>2 DEF ClaimAnswerLost, Explained, TypeOK
  <2>3. CASE k # KeyOf(e)
    <3>1. key'[k] = key[k] /\ owner'[k] = owner[k] /\ rows' = rows
      BY <1>5, <2>3 DEF ClaimAnswerLost, TryClaimAlertDedup, TypeOK
    <3> QED BY <1>0, <2>1, <3>1, ExplainedFrame
  <2> QED BY <2>2, <2>3
<1>6. ASSUME NEW e \in Evaluator, InsertOk(e) PROVE Explained(k)'
  <2>1. KeyOf(e) \in Key /\ \A x \in Evaluator : KeyOf(x)' = KeyOf(x)
    BY <1>6, CurrentFacts DEF InsertOk, KeyOf, Current
  <2>2. /\ \E t \in rows'[KeyOf(e)] : now < t + Window
        /\ rows[k] \subseteq rows'[k]
    BY <1>6, <2>1, InsertCovers DEF InsertOk
  <2>3. \A x \in Evaluator \ {e} : InFlight(x, k) => InFlight(x, k)'
    BY <1>6, <2>1 DEF InsertOk, InFlight, TypeOK
  <2>4. key' = key /\ owner' = owner /\ claimAt' = claimAt
    BY <1>6 DEF InsertOk
  <2>5. CASE InFlight(e, k)
    <3>1. PICK t \in rows'[k] : now < t + Window
      BY <2>2, <2>5 DEF InFlight
    <3>2. key[k] \in 0..now /\ t \in 0..now
      <4>1. rows' \in [Key -> SUBSET (0..now)]
        BY <1>6, TypeStep, Zenon DEF InsertOk, TypeOK, Next
      <4> QED BY <2>4, <4>1 DEF TypeOK
    <3>3. key'[k] < t + Window
      BY <2>4, <3>1, <3>2, WindowAssumption DEF TypeOK, Time
    <3> QED BY <3>3 DEF Explained
  <2>6. CASE ~InFlight(e, k)
    <3>1. \A x \in Evaluator : InFlight(x, k) => InFlight(x, k)' /\ claimAt'[x] = claimAt[x]
      BY <2>3, <2>4, <2>6
    <3> QED BY <1>0, <2>2, <2>4, <3>1, ExplainedFrame
  <2> QED BY <2>5, <2>6
<1>7. ASSUME NEW e \in Evaluator, InsertFails(e) PROVE Explained(k)'
  <2>1. KeyOf(e) \in Key /\ \A x \in Evaluator : KeyOf(x)' = KeyOf(x)
    BY <1>7, CurrentFacts DEF InsertFails, KeyOf, Current
  <2>2. rows[k] \subseteq rows'[k]
    BY <1>7, <2>1, InsertCovers DEF InsertFails
  <2>3. \A x \in Evaluator : InFlight(x, k) => InFlight(x, k)' /\ claimAt'[x] = claimAt[x]
    BY <1>7, <2>1 DEF InsertFails, InFlight, TypeOK
  <2> QED BY <1>0, <1>7, <2>2, <2>3, ExplainedFrame DEF InsertFails
<1>8. ASSUME NEW e \in Evaluator, Release(e) \/ ReleaseRetried(e) \/ ReleaseFails(e)
      PROVE  Explained(k)'
  <2>1. /\ pc[e] = "release" /\ claimAt' = claimAt /\ rows' = rows
        /\ NextRule(e) \/ UNCHANGED evalVars
    BY <1>8 DEF Release, ReleaseRetried, ReleaseFails, evalVars
  <2>2. \A x \in Evaluator \ {e} : InFlight(x, k) => InFlight(x, k)'
    BY <2>1, NextRuleFacts DEF InFlight, evalVars, KeyOf, Current
  <2>3. CASE k = KeyOf(e)
    <3>1. ~ReleaseAlertDedup(KeyOf(e))
      BY <2>3 DEF ReleaseAlertDedup, TypeOK
    <3>2. ReleaseFails(e)
      BY <1>8, <3>1 DEF Release, ReleaseRetried
    <3>3. key'[k] = key[k] /\ owner'[k] = IF owner[k] = e THEN Nobody ELSE owner[k]
      BY <2>3, <3>2 DEF ReleaseFails, TypeOK
    <3> QED BY <1>0, <2>1, <2>2, <3>3, ExplainedFrame
  <2>4. CASE k # KeyOf(e)
    <3>1. key'[k] = key[k] /\ owner'[k] = owner[k]
      BY <1>8, <2>4 DEF Release, ReleaseRetried, ReleaseFails, ReleaseAlertDedup, TypeOK
    <3>2. \A x \in Evaluator : InFlight(x, k) => InFlight(x, k)' /\ claimAt'[x] = claimAt[x]
      BY <2>1, <2>2, <2>4 DEF InFlight
    <3> QED BY <1>0, <2>1, <3>1, <3>2, ExplainedFrame
  <2> QED BY <2>3, <2>4
<1>9. CASE Crash
  <2>1. key' = key /\ rows' = rows
    BY <1>9 DEF Crash
  <2>2. owner'[k] = IF \E e \in Evaluator : owner[k] = e /\ InFlight(e, k) THEN Nobody ELSE owner[k]
    BY <1>9 DEF Crash
  <2> QED BY <1>0, <2>1, <2>2, ExplainedFrame
<1>10. CASE Tick
  <2>1. key'[k] = key[k] /\ owner'[k] = owner[k]
    BY <1>10 DEF Tick, TypeOK
  <2>2. \A x \in Evaluator : InFlight(x, k) => InFlight(x, k)' /\ claimAt'[x] = claimAt[x]
    BY <1>10 DEF Tick, evalVars, InFlight, KeyOf, Current
  <2> QED BY <1>0, <1>10, <2>1, <2>2, ExplainedFrame DEF Tick
<1>11. CASE UNCHANGED vars
  BY <1>0, <1>11 DEF vars, evalVars, Explained, InFlight, KeyOf, Current
<1> QED
  BY <1>1, <1>2, <1>4, <1>5, <1>6, <1>7, <1>8, <1>9, <1>10, <1>11 DEF Next

\* A deduplication key never suppresses alerts for nothing: unless a fault
\* left it behind, its claim is being worked on or a row covers it.
THEOREM KeysExplained == Spec => []HeldKeyHasRow
<1>1. Init => HeldKeyHasRow
  BY DEF Init, HeldKeyHasRow
<1>2. TypeOK /\ HeldKeyHasRow /\ [Next]_vars => HeldKeyHasRow'
  BY ExplainedStep
<1> QED
  BY <1>1, <1>2, TypeCorrect, PTL DEF Spec

\* Every step publishes only alerts whose row is stored.
LEMMA PublishedStep ==
    ASSUME TypeOK, PublishedIsStored, [Next]_vars PROVE PublishedIsStored'
<1> DEFINE Stored(x) == \E t \in rows[KeyOf(x)] : claimAt[x] < t + Window
<1> SUFFICES ASSUME NEW x \in Evaluator, pc'[x] = "publish" PROVE Stored(x)'
  BY DEF PublishedIsStored
<1>0. pc[x] = "publish" => Stored(x) /\ KeyOf(x) \in Key
  BY CurrentFacts DEF PublishedIsStored
<1>1. ASSUME pc[x] = "publish", KeyOf(x)' = KeyOf(x), claimAt'[x] = claimAt[x],
             \A j \in Key : rows[j] \subseteq rows'[j]
      PROVE  Stored(x)'
  BY <1>0, <1>1
<1>2. ASSUME NEW e \in Evaluator, Evaluate(e) \/ Claim(e) PROVE Stored(x)'
  <2>1. x # e /\ pc[x] = pc'[x] /\ claimAt'[x] = claimAt[x] /\ rows' = rows
    BY <1>2 DEF Evaluate, Claim, TypeOK
  <2>2. KeyOf(x)' = KeyOf(x)
    BY <1>2, <2>1 DEF Evaluate, Claim, TypeOK, KeyOf, Current
  <2> QED BY <1>1, <2>1, <2>2
<1>3. ASSUME NEW e \in Evaluator,
             \/ NotClaimed(e) \/ ClaimAnswerLost(e)
             \/ Release(e) \/ ReleaseFails(e) \/ Publish(e)
      PROVE Stored(x)'
  <2>1. NextRule(e) /\ pc[e] # "idle" /\ claimAt' = claimAt /\ rows' = rows
    BY <1>3 DEF NotClaimed, ClaimAnswerLost, Release, ReleaseFails, Publish
  <2>2. x # e /\ pc[x] = pc'[x] /\ KeyOf(x)' = KeyOf(x)
    BY <2>1, NextRuleFacts
  <2> QED BY <1>1, <2>1, <2>2
<1>4. ASSUME NEW e \in Evaluator, InsertOk(e) \/ InsertFails(e) PROVE Stored(x)'
  <2>1. /\ KeyOf(e) \in Key /\ KeyOf(x)' = KeyOf(x) /\ claimAt' = claimAt
    BY <1>4, CurrentFacts DEF InsertOk, InsertFails, KeyOf, Current
  <2>2. \A j \in Key : rows[j] \subseteq rows'[j]
    BY <1>4, <2>1, InsertCovers DEF InsertOk, InsertFails
  <2>3. CASE pc[x] = "publish"
    BY <1>1, <2>1, <2>2, <2>3
  <2>4. CASE pc[x] # "publish"
    <3>1. x = e /\ InsertOk(e)
      BY <1>4, <2>4 DEF InsertOk, InsertFails, TypeOK
    <3>2. PICK t \in rows'[KeyOf(x)] : now < t + Window
      BY <2>1, <3>1, InsertCovers DEF InsertOk
    <3>3. claimAt[x] \in 0..now /\ t \in 0..now
      <4>1. rows' \in [Key -> SUBSET (0..now)]
        BY <1>4, TypeStep DEF InsertOk, InsertFails, TypeOK, Next
      <4> QED BY <2>1, <3>1, <4>1 DEF TypeOK
    <3>4. claimAt'[x] < t + Window
      BY <2>1, <3>2, <3>3, WindowAssumption, SMTT(30) DEF TypeOK, Time
    <3> QED BY <2>1, <3>4
  <2> QED BY <2>3, <2>4
<1>5. CASE Crash
  BY <1>5 DEF Crash
<1>6. CASE Tick \/ (\E e \in Evaluator : ReleaseRetried(e)) \/ UNCHANGED vars
  <2>1. UNCHANGED <<evalVars, rows>>
    BY <1>6 DEF Tick, ReleaseRetried, vars
  <2> QED BY <1>1, <2>1 DEF evalVars, KeyOf, Current
<1> QED
  BY <1>2, <1>3, <1>4, <1>5, <1>6 DEF Next

\* Every alert an evaluator publishes is in vehicle_alerts, also when another
\* evaluator's row made its own insert do nothing.
THEOREM PublishedStored == Spec => []PublishedIsStored
<1>1. Init => PublishedIsStored
  BY DEF Init, PublishedIsStored
<1>2. TypeOK /\ PublishedIsStored /\ [Next]_vars => PublishedIsStored'
  BY PublishedStep
<1> QED
  BY <1>1, <1>2, TypeCorrect, PTL DEF Spec
=============================================================================
