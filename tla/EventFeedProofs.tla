--------------------------- MODULE EventFeedProofs ---------------------------
(***************************************************************************)
(* Proofs about what EventStream hands over, for any events, ids, log,     *)
(* look-back, delays and bounds: the types, and that an event is handled   *)
(* once, and taken for a repetition only if it is one.                     *)
(*                                                                         *)
(* A poll offers any number of hits in one step.  What can become of the   *)
(* state after each of them are the Stages of that step; that all of them  *)
(* are Sound follows from the first one that would not be.                 *)
(***************************************************************************)
EXTENDS EventStream, SequenceTheorems, FunctionTheorems, FiniteSetTheorems,
        WellFoundedInduction, TLAPS

\* The outcomes after each of the hits, as far as the m-th.
Stages(hits, g, m) ==
    g = [i \in 0 .. m |-> IF i = 0 THEN {Untouched}
                          ELSE UNION {Outcomes(o, hits[i]) : o \in g[i - 1]}]

\* A set of numbers that is not empty has a least one.
LEMMA Least == ASSUME NEW S \in SUBSET Nat, S # {}
               PROVE  \E a \in S : \A b \in S : a <= b
<1> DEFINE Below == {p \in Nat \X Nat : p[1] < p[2]}
<1>1. IsWellFoundedOn(Below, Nat) BY NatLessThanWellFounded DEF OpToRel
<1>2. \A a, b \in Nat : <<b, a>> \in Below <=> b < a OBVIOUS
<1> HIDE DEF Below
<1>3. PICK a \in S : \A b \in S : <<b, a>> \notin Below BY <1>1, WFMin
<1>4. \A b \in S : ~(b < a) BY <1>2, <1>3
<1>5. \A b \in S : a <= b
  <2> TAKE b \in S
  <2>1. ~(b < a) BY <1>4
  <2>2. a \in Nat /\ b \in Nat OBVIOUS
  <2> QED BY <2>1, <2>2
<1> QED BY <1>5

\* There are such stages for any number of hits: the first number without has a
\* predecessor, whose stages go one further.
LEMMA StagesExist ==
    ASSUME NEW hits, NEW n \in Nat
    PROVE  \E g : Stages(hits, g, n)
<1> DEFINE Without == {m \in 0 .. n : ~\E g : Stages(hits, g, m)}
<1> SUFFICES ASSUME Without # {} PROVE FALSE OBVIOUS
<1>1. Without \in SUBSET Nat OBVIOUS
<1>2. PICK m \in Without : \A k \in Without : m <= k
  <2> HIDE DEF Without
  <2> QED BY <1>1, Least
<1>3. m \in 0 .. n /\ ~\E g : Stages(hits, g, m) OBVIOUS
<1>4. m # 0
  <2> DEFINE g == [i \in 0 .. 0 |-> {Untouched}]
  <2>1. Stages(hits, g, 0)
    <3>1. [i \in 0 .. 0 |-> IF i = 0 THEN {Untouched}
                            ELSE UNION {Outcomes(o, hits[i]) : o \in g[i - 1]}] = g
      OBVIOUS
    <3> QED BY <3>1 DEF Stages
  <2> QED BY <1>3, <2>1
<1>5. m - 1 \in 0 .. n /\ ~(m <= m - 1) BY <1>3, <1>4
<1>6. m - 1 \notin Without BY <1>2, <1>5
<1>7. PICK g : Stages(hits, g, m - 1) BY <1>5, <1>6
<1> DEFINE h == [i \in 0 .. m |-> IF i < m THEN g[i]
                                  ELSE UNION {Outcomes(o, hits[i]) : o \in g[i - 1]}]
<1>8. ASSUME NEW i \in 0 .. m
      PROVE  h[i] = IF i = 0 THEN {Untouched}
                    ELSE UNION {Outcomes(o, hits[i]) : o \in h[i - 1]}
  <2>1. CASE i = 0
    <3>1. h[i] = g[i] /\ i \in 0 .. m - 1 BY <1>3, <1>4, <2>1
    <3> QED BY <1>7, <2>1, <3>1 DEF Stages
  <2>2. CASE i # 0
    <3>1. i - 1 \in 0 .. m /\ i - 1 < m BY <1>3, <2>2
    <3>2. h[i - 1] = g[i - 1] BY <3>1
    <3>3. CASE i < m
      <4>1. h[i] = g[i] /\ i \in 0 .. m - 1 BY <1>3, <3>3
      <4>2. g[i] = UNION {Outcomes(o, hits[i]) : o \in g[i - 1]} BY <1>7, <2>2, <4>1 DEF Stages
      <4> QED BY <2>2, <3>2, <4>1, <4>2
    <3>4. CASE ~(i < m)
      <4>1. h[i] = UNION {Outcomes(o, hits[i]) : o \in g[i - 1]} BY <3>4
      <4> QED BY <2>2, <3>2, <4>1
    <3> QED BY <3>3, <3>4
  <2> QED BY <2>1, <2>2
<1>9. h = [i \in 0 .. m |-> IF i = 0 THEN {Untouched}
                            ELSE UNION {Outcomes(o, hits[i]) : o \in h[i - 1]}]
  <2>1. h = [i \in 0 .. m |-> h[i]] OBVIOUS
  <2> HIDE DEF h
  <2> QED BY <1>8, <2>1
<1> HIDE DEF h
<1>10. Stages(hits, h, m) BY <1>9 DEF Stages
<1> QED BY <1>3, <1>10

\* OfferAll is the last of the stages.
LEMMA OfferAllIs ==
    ASSUME NEW hits, Len(hits) \in Nat
    PROVE  \E g : Stages(hits, g, Len(hits)) /\ OfferAll(hits) = g[Len(hits)]
<1> DEFINE f == CHOOSE g : Stages(hits, g, Len(hits))
<1>1. Stages(hits, f, Len(hits)) BY StagesExist
<1>2. OfferAll(hits) = f[Len(hits)] BY DEF OfferAll, Stages
<1> QED BY <1>1, <1>2
-----------------------------------------------------------------------------
(* What an outcome is.                                                      *)

Outcome == [ids : SUBSET Ids, done : SUBSET Events]

\* The ids of the events handled, and of those and the ids seen before.
Named(done) == {EventId[e] : e \in done} \ {None}
Met(done)   == seen \cup Named(done)

\* Either no id has been forgotten on the way, and then no two of the events handled
\* share an id, nor one of them an id seen before; or so many ids have been met that one
\* of them is lost for good.
Sound(o) ==
    /\ o \in Outcome
    /\ Cardinality(o.ids) <= SeenCap
    /\ o.ids \subseteq Met(o.done)
    /\ \/ /\ Met(o.done) \subseteq o.ids
          /\ \A e \in o.done : EventId[e] \notin seen
          /\ \A e, f \in o.done : e # f => EventId[e] = None \/ EventId[e] # EventId[f]
       \/ Cardinality(Met(o.done)) > SeenCap

\* The ids are finitely many, and None is none of them.
LEMMA IdsAreFinite == IsFiniteSet(Ids) /\ None \notin Ids
<1> DEFINE T == {EventId[e] : e \in Events}
           f == [e \in Events |-> EventId[e]]
<1>1. f \in Surjection(Events, T)
  <2>1. f \in [Events -> T] OBVIOUS
  <2>2. \A t \in T : \E e \in Events : f[e] = t OBVIOUS
  <2> HIDE DEF f, T
  <2> QED BY <2>1, <2>2 DEF Surjection
<1> HIDE DEF f
<1>2. IsFiniteSet(T)
  <2> HIDE DEF T
  <2> QED BY <1>1, StreamAssumption, FS_Surjection
<1>3. Ids = T \ {None} BY DEF Ids
<1> HIDE DEF T
<1>4. IsFiniteSet(Ids) BY <1>2, <1>3, FS_Subset
<1> QED BY <1>3, <1>4

\* _remember keeps the set within its cap, adds one id and no other; if it forgets, the
\* ids met were more than there is room for.
LEMMA RememberIs ==
    ASSUME NEW ids \in SUBSET Ids, Cardinality(ids) <= SeenCap, NEW e \in Events,
           NEW new \in Remember(ids, EventId[e])
    PROVE  LET grown == (ids \cup {EventId[e]}) \ {None}
           IN  /\ new \subseteq grown /\ grown \subseteq Ids
               /\ Cardinality(new) <= SeenCap
               /\ new = grown \/ Cardinality(grown) > SeenCap
<1> DEFINE id    == EventId[e]
           grown == (ids \cup {id}) \ {None}
<1>1. SeenCap \in Nat /\ Forgotten \in Nat /\ Forgotten >= 1 BY StreamAssumption
<1>2. grown \subseteq Ids BY DEF Ids
<1>3. IsFiniteSet(ids) /\ Cardinality(ids) \in Nat
  BY IdsAreFinite, FS_Subset, FS_CardinalityType
<1>4. IsFiniteSet(ids \cup {id}) /\ Cardinality(ids \cup {id}) <= Cardinality(ids) + 1
  <2> HIDE DEF id
  <2>1. /\ IsFiniteSet(ids \cup {id})
        /\ Cardinality(ids \cup {id}) = IF id \in ids THEN Cardinality(ids)
                                        ELSE Cardinality(ids) + 1
    BY <1>3, FS_AddElement
  <2> QED BY <1>3, <2>1
<1>5. IsFiniteSet(grown) /\ Cardinality(grown) \in Nat /\ Cardinality(grown) <= SeenCap + 1
  <2> HIDE DEF id
  <2>1. grown \in SUBSET (ids \cup {id}) OBVIOUS
  <2> HIDE DEF grown
  <2>2. IsFiniteSet(grown) /\ Cardinality(grown) <= Cardinality(ids \cup {id})
    BY <1>4, <2>1, FS_Subset
  <2>3. Cardinality(grown) \in Nat /\ Cardinality(ids \cup {id}) \in Nat
    BY <1>4, <2>2, FS_CardinalityType
  <2> QED BY <1>1, <1>3, <1>4, <2>2, <2>3
<1>6. new \in IF Cardinality(grown) > SeenCap
              THEN {grown \ gone : gone \in {g \in SUBSET grown : Cardinality(g) = Forgotten}}
              ELSE {grown}
  BY DEF Remember
<1> HIDE DEF grown
<1>7. CASE Cardinality(grown) > SeenCap
  <2>1. PICK gone \in SUBSET grown : Cardinality(gone) = Forgotten /\ new = grown \ gone
    BY <1>6, <1>7
  <2>2. grown \cap gone = gone OBVIOUS
  <2>3. Cardinality(new) = Cardinality(grown) - Forgotten
    BY <1>5, <2>1, <2>2, FS_Difference
  <2>4. Cardinality(new) <= SeenCap BY <1>1, <1>5, <2>3
  <2> QED BY <1>2, <1>7, <2>1, <2>4 DEF grown, id
<1>8. CASE ~(Cardinality(grown) > SeenCap)
  <2>1. new = grown BY <1>6, <1>8
  <2>2. Cardinality(new) <= SeenCap BY <1>1, <1>5, <1>8, <2>1
  <2> QED BY <1>2, <2>1, <2>2 DEF grown, id
<1> QED BY <1>7, <1>8

\* Of finitely many ids, more is at least as many.
LEMMA MoreIds ==
    ASSUME NEW T \in SUBSET Ids, NEW S \in SUBSET T
    PROVE  /\ Cardinality(S) \in Nat /\ Cardinality(T) \in Nat
           /\ Cardinality(S) <= Cardinality(T)
<1>1. IsFiniteSet(T) BY IdsAreFinite, FS_Subset
<1>2. IsFiniteSet(S) /\ Cardinality(S) <= Cardinality(T) BY <1>1, FS_Subset
<1> QED BY <1>1, <1>2, FS_CardinalityType

\* Before anything is offered nothing has been forgotten.
LEMMA UntouchedIsSound ==
    ASSUME seen \subseteq Ids, Cardinality(seen) <= SeenCap
    PROVE  Sound(Untouched)
<1>1. Untouched.ids = seen /\ Untouched.done = {} /\ Untouched \in Outcome
  BY DEF Untouched, Outcome
<1>2. Met({}) = seen BY DEF Met, Named
<1> QED BY <1>1, <1>2 DEF Sound

\* Offering an event to a sound outcome has sound outcomes.
LEMMA OfferIsSound ==
    ASSUME seen \subseteq Ids, NEW o, Sound(o), NEW e \in Events, NEW p \in Outcomes(o, e)
    PROVE  Sound(p)
<1> DEFINE id    == EventId[e]
           grown == (o.ids \cup {id}) \ {None}
           done  == o.done \cup {e}
<1>1. CASE id \in o.ids BY <1>1 DEF Outcomes
<1>2. CASE id \notin o.ids
  <2>1. PICK new \in Remember(o.ids, id) : p = [ids |-> new, done |-> done]
    BY <1>2 DEF Outcomes
  <2>2. /\ o.ids \subseteq Ids /\ o.done \subseteq Events /\ Cardinality(o.ids) <= SeenCap
        /\ o.ids \subseteq Met(o.done)
    BY DEF Sound, Outcome
  <2>3. /\ new \subseteq grown /\ grown \subseteq Ids
        /\ Cardinality(new) <= SeenCap
        /\ new = grown \/ Cardinality(grown) > SeenCap
    BY <2>1, <2>2, RememberIs
  <2>4. Met(done) = Met(o.done) \cup ({id} \ {None}) BY DEF Met, Named
  <2>5. grown \subseteq Met(done) BY <2>2, <2>4
  <2>6. Met(done) \subseteq Ids
    <3>1. Named(done) \subseteq Ids BY <2>2 DEF Named, Ids
    <3> QED BY <3>1 DEF Met
  <2>7. p.ids = new /\ p.done = done /\ p \in Outcome BY <2>1, <2>2, <2>3 DEF Outcome
  <2>8. SeenCap \in Nat BY StreamAssumption
  <2>9. CASE Cardinality(grown) > SeenCap
    <3>1. Cardinality(Met(done)) > SeenCap
      <4>1. grown \in SUBSET Met(done) /\ Met(done) \in SUBSET Ids BY <2>5, <2>6
      <4> HIDE DEF grown, done
      <4>2. /\ Cardinality(grown) \in Nat /\ Cardinality(Met(done)) \in Nat
            /\ Cardinality(grown) <= Cardinality(Met(done))
        BY <4>1, MoreIds
      <4> QED BY <2>8, <2>9, <4>2
    <3> QED BY <2>3, <2>5, <2>7, <3>1 DEF Sound
  <2>10. CASE new = grown /\ Cardinality(Met(o.done)) > SeenCap
    <3>1. Cardinality(Met(done)) > SeenCap
      <4>1. Met(o.done) \in SUBSET Met(done) /\ Met(done) \in SUBSET Ids BY <2>4, <2>6
      <4> HIDE DEF done
      <4>2. /\ Cardinality(Met(o.done)) \in Nat /\ Cardinality(Met(done)) \in Nat
            /\ Cardinality(Met(o.done)) <= Cardinality(Met(done))
        BY <4>1, MoreIds
      <4> QED BY <2>8, <2>10, <4>2
    <3> QED BY <2>3, <2>5, <2>7, <3>1 DEF Sound
  <2>11. CASE /\ new = grown
              /\ Met(o.done) \subseteq o.ids
              /\ \A f \in o.done : EventId[f] \notin seen
              /\ \A f, g \in o.done : f # g => EventId[f] = None \/ EventId[f] # EventId[g]
    <3>1. None \notin Ids BY IdsAreFinite
    <3>2. Met(done) \subseteq new
      <4>1. None \notin Met(o.done) BY <2>2, <2>11, <3>1
      <4> QED BY <2>4, <2>11, <4>1
    <3>3. id \notin seen BY <1>2, <2>11 DEF Met
    <3>4. \A f \in o.done : EventId[f] = id => id = None
      BY <1>2, <2>11 DEF Met, Named
    <3>5. \A f \in done : EventId[f] \notin seen BY <2>11, <3>3
    <3>6. \A f, g \in done : f # g => EventId[f] = None \/ EventId[f] # EventId[g]
      BY <2>11, <3>4
    <3> HIDE DEF done, grown, id
    <3> QED BY <2>3, <2>5, <2>7, <3>2, <3>5, <3>6 DEF Sound
  <2> QED BY <2>3, <2>9, <2>10, <2>11 DEF Sound
<1> QED BY <1>1, <1>2

\* And so has offering one after the other.
LEMMA OffersAreSound ==
    ASSUME seen \subseteq Ids, Cardinality(seen) <= SeenCap,
           NEW hits \in Seq(Events), NEW o \in OfferAll(hits)
    PROVE  Sound(o)
<1>1. Len(hits) \in Nat BY LenProperties
<1>2. PICK g : Stages(hits, g, Len(hits)) /\ OfferAll(hits) = g[Len(hits)]
  BY <1>1, OfferAllIs
<1>3. g[0] = {Untouched} BY <1>1, <1>2 DEF Stages
<1>4. ASSUME NEW i \in 1 .. Len(hits)
      PROVE  g[i] = UNION {Outcomes(p, hits[i]) : p \in g[i - 1]}
  <2>1. i \in 0 .. Len(hits) /\ i # 0 BY <1>1
  <2> QED BY <1>2, <2>1 DEF Stages
<1> DEFINE Unsound == {m \in 0 .. Len(hits) : \E p \in g[m] : ~Sound(p)}
<1>5. Unsound = {}
  <2> SUFFICES ASSUME Unsound # {} PROVE FALSE OBVIOUS
  <2>1. Unsound \in SUBSET Nat OBVIOUS
  <2>2. PICK m \in Unsound : \A k \in Unsound : m <= k
    <3> HIDE DEF Unsound
    <3> QED BY <2>1, Least
  <2>3. m \in 0 .. Len(hits) OBVIOUS
  <2>4. PICK p \in g[m] : ~Sound(p) OBVIOUS
  <2>5. m # 0 BY <1>3, <2>4, UntouchedIsSound
  <2>6. m \in 1 .. Len(hits) /\ m - 1 \in 0 .. Len(hits) /\ ~(m <= m - 1) BY <2>3, <2>5
  <2>7. m - 1 \notin Unsound BY <2>2, <2>6
  <2>8. PICK q \in g[m - 1] : p \in Outcomes(q, hits[m]) BY <1>4, <2>4, <2>6
  <2>9. Sound(q) BY <2>6, <2>7, <2>8
  <2>10. hits[m] \in Events BY <2>6, ElementOfSeq
  <2> QED BY <2>4, <2>8, <2>9, <2>10, OfferIsSound
<1> QED BY <1>1, <1>2, <1>5
-----------------------------------------------------------------------------
(* The inductive invariant.                                                 *)

\* As long as nothing has been forgotten, the id of whatever was handled is seen.
HandledIsSeen ==
    \A e \in Events :
        handled[e] > 0 /\ EventId[e] # None /\ ~forgot => EventId[e] \in seen

FeedInv == HandledIsSeen /\ AtMostOnce /\ SeenMeansHandled

IInv == TypeOK /\ FeedInv

FeedVars == <<seen, handled, spoilt, forgot>>

\* What a step that hands no event over leaves as it is.
LEMMA FeedStays ==
    ASSUME FeedInv, UNCHANGED FeedVars
    PROVE  FeedInv'
BY DEF FeedInv, HandledIsSeen, AtMostOnce, SeenMeansHandled, FeedVars

\* Whatever the outcome of what was offered, the promises of the feed are kept.
LEMMA SettleKeeps ==
    ASSUME TypeOK, FeedInv, NEW o, Sound(o), Settle(o)
    PROVE  /\ seen' \subseteq Ids /\ Cardinality(seen') <= SeenCap
           /\ handled' \in [Events -> 0 .. 2]
           /\ forgot' \in BOOLEAN
           /\ UNCHANGED spoilt
           /\ FeedInv'
<1>13. UNCHANGED spoilt BY DEF Settle
<1>1. /\ seen \subseteq Ids /\ handled \in [Events -> 0 .. 2] /\ forgot \in BOOLEAN
  BY DEF TypeOK
<1>2. /\ o.ids \subseteq Ids /\ o.done \subseteq Events /\ Cardinality(o.ids) <= SeenCap
      /\ o.ids \subseteq Met(o.done)
  BY DEF Sound, Outcome
<1>3. /\ seen' = o.ids
      /\ handled' = [e \in Events |-> IF e \in o.done /\ handled[e] < 2
                                      THEN handled[e] + 1 ELSE handled[e]]
      /\ forgot' = \/ forgot
                   \/ ~(seen \cup {EventId[e] : e \in o.done} \subseteq o.ids \cup {None})
  BY DEF Settle
<1>4. None \notin Ids BY IdsAreFinite
<1>5. ASSUME NEW e \in Events
      PROVE  /\ handled'[e] \in 0 .. 2
             /\ e \in o.done => handled'[e] > 0
             /\ e \in o.done /\ handled[e] = 0 => handled'[e] = 1
             /\ e \notin o.done => handled'[e] = handled[e]
             /\ handled[e] > 0 => handled'[e] > 0
  BY <1>1, <1>3
<1>6. handled' \in [Events -> 0 .. 2] BY <1>3, <1>5
<1>7. SeenMeansHandled'
  <2> SUFFICES ASSUME NEW id \in o.ids
               PROVE  \E e \in Events : EventId[e] = id /\ (handled'[e] > 0 \/ e \in spoilt)
    BY <1>3, <1>13 DEF SeenMeansHandled
  <2>1. CASE id \in seen
    <3>1. PICK e \in Events : EventId[e] = id /\ (handled[e] > 0 \/ e \in spoilt)
      BY <2>1 DEF FeedInv, SeenMeansHandled
    <3> QED BY <1>5, <3>1
  <2>2. CASE id \notin seen
    <3>1. PICK e \in o.done : EventId[e] = id BY <1>2, <2>2 DEF Met, Named
    <3> QED BY <1>2, <1>5, <3>1
  <2> QED BY <2>1, <2>2
<1>8. ASSUME ~forgot'
      PROVE  /\ ~forgot
             /\ Met(o.done) \subseteq o.ids
             /\ \A e \in o.done : EventId[e] \notin seen
             /\ \A e, f \in o.done : e # f => EventId[e] = None \/ EventId[e] # EventId[f]
  <2>1. ~forgot /\ seen \cup {EventId[e] : e \in o.done} \subseteq o.ids \cup {None}
    BY <1>1, <1>3, <1>8
  <2>2. Met(o.done) \subseteq o.ids BY <1>1, <1>4, <2>1 DEF Met, Named
  <2>3. ~(Cardinality(Met(o.done)) > SeenCap)
    <3>1. SeenCap \in Nat BY StreamAssumption
    <3>2. Met(o.done) \in SUBSET o.ids /\ o.ids \in SUBSET Ids BY <1>2, <2>2
    <3>3. /\ Cardinality(Met(o.done)) \in Nat /\ Cardinality(o.ids) \in Nat
          /\ Cardinality(Met(o.done)) <= Cardinality(o.ids)
      BY <3>2, MoreIds
    <3> QED BY <1>2, <3>1, <3>3
  <2> QED BY <2>1, <2>2, <2>3 DEF Sound
<1>9. HandledIsSeen'
  <2> SUFFICES ASSUME NEW e \in Events, handled'[e] > 0, EventId[e] # None, ~forgot'
               PROVE  EventId[e] \in o.ids
    BY <1>3 DEF HandledIsSeen
  <2>1. ~forgot /\ Met(o.done) \subseteq o.ids BY <1>8
  <2>2. CASE e \in o.done BY <2>1, <2>2 DEF Met, Named
  <2>3. CASE e \notin o.done
    <3>1. handled[e] > 0 BY <1>5, <2>3
    <3>2. EventId[e] \in seen BY <2>1, <3>1 DEF FeedInv, HandledIsSeen
    <3> QED BY <2>1, <3>2 DEF Met
  <2> QED BY <2>2, <2>3
<1>10. AtMostOnce'
  <2> SUFFICES ASSUME NEW e \in Events, NEW f \in Events,
                      EventId[e] # None, EventId[e] = EventId[f], ~forgot'
               PROVE  /\ handled'[e] <= 1
                      /\ e # f => handled'[e] = 0 \/ handled'[f] = 0
    BY DEF AtMostOnce
  <2>1. /\ ~forgot
        /\ \A g \in o.done : EventId[g] \notin seen
        /\ \A g, h \in o.done : g # h => EventId[g] = None \/ EventId[g] # EventId[h]
    BY <1>8
  <2>2. ASSUME NEW g \in o.done, NEW h \in Events, EventId[h] # None, EventId[g] = EventId[h]
        PROVE  handled[h] = 0
    <3>1. ~(handled[h] > 0) BY <2>1, <2>2 DEF FeedInv, HandledIsSeen
    <3>2. handled[h] \in 0 .. 2 BY <1>1
    <3> QED BY <3>1, <3>2
  <2>3. /\ handled[e] <= 1
        /\ e # f => handled[e] = 0 \/ handled[f] = 0
    BY <2>1 DEF FeedInv, AtMostOnce
  <2>4. handled'[e] <= 1
    <3>1. CASE e \in o.done BY <1>5, <2>2, <3>1
    <3>2. CASE e \notin o.done BY <1>5, <2>3, <3>2
    <3> QED BY <3>1, <3>2
  <2>5. ASSUME e # f PROVE handled'[e] = 0 \/ handled'[f] = 0
    <3>1. CASE e \in o.done
      <4>1. f \notin o.done BY <2>1, <2>5, <3>1
      <4> QED BY <1>5, <2>2, <3>1, <4>1
    <3>2. CASE e \notin o.done /\ f \in o.done BY <1>5, <2>2, <3>2
    <3>3. CASE e \notin o.done /\ f \notin o.done BY <1>5, <2>3, <2>5, <3>3
    <3> QED BY <3>1, <3>2, <3>3
  <2> QED BY <2>4, <2>5
<1>11. forgot' \in BOOLEAN BY <1>1, <1>3
<1>12. seen' \subseteq Ids /\ Cardinality(seen') <= SeenCap BY <1>2, <1>3
<1> QED BY <1>6, <1>7, <1>9, <1>10, <1>11, <1>12, <1>13 DEF FeedInv

\* So they are when an id is remembered and its frame then raises.
LEMMA SpoilKeeps ==
    ASSUME TypeOK, FeedInv, NEW e \in Broken, Spoil(e)
    PROVE  /\ seen' \subseteq Ids /\ Cardinality(seen') <= SeenCap
           /\ UNCHANGED <<lastAge, handled>>
           /\ spoilt' \subseteq Broken
           /\ forgot' \in BOOLEAN
           /\ FeedInv'
<1> DEFINE id == EventId[e]
<1>1. /\ e \in Events /\ seen \in SUBSET Ids /\ Cardinality(seen) <= SeenCap
      /\ spoilt \subseteq Broken /\ forgot \in BOOLEAN
  BY StreamAssumption DEF TypeOK
<1>2. /\ seen' \in Remember(seen, id)
      /\ forgot' = (forgot \/ ~(seen \cup {id} \subseteq seen'))
      /\ spoilt' = spoilt \cup {e}
      /\ UNCHANGED <<lastAge, handled>>
  BY DEF Spoil
<1>3. /\ seen' \subseteq (seen \cup {id}) \ {None} /\ seen' \subseteq Ids
      /\ Cardinality(seen') <= SeenCap
  BY <1>1, <1>2, RememberIs
<1>4. HandledIsSeen'
  BY <1>2 DEF FeedInv, HandledIsSeen
<1>5. AtMostOnce'
  BY <1>2 DEF FeedInv, AtMostOnce
<1>6. SeenMeansHandled'
  BY <1>1, <1>2, <1>3 DEF FeedInv, SeenMeansHandled
<1> QED BY <1>1, <1>2, <1>3, <1>4, <1>5, <1>6 DEF FeedInv

\* The hits of a poll, in any order, are finitely many events, and those that are
\* converted before one raises are the first of them.
LEMMA ReplayOffers ==
    ASSUME NEW order \in SetToSeqs(Hits)
    PROVE  SubSeq(order, 1, Convertible(order)) \in Seq(Events)
<1>1. Hits \subseteq Events BY StreamAssumption DEF Hits, Log
<1>2. IsFiniteSet(Hits) /\ Cardinality(Hits) \in Nat
  BY <1>1, StreamAssumption, FS_Subset, FS_CardinalityType
<1>3. order \in [1 .. Cardinality(Hits) -> Hits] BY DEF SetToSeqs
<1>4. order \in Seq(Events) /\ Len(order) \in Nat
  <2>1. order \in Seq(Hits) /\ Len(order) = Cardinality(Hits) BY <1>2, <1>3
  <2>2. \A i \in 1 .. Len(order) : order[i] \in Events BY <1>1, <1>3, <2>1
  <2> HIDE DEF Hits
  <2>3. order \in [1 .. Cardinality(Hits) -> Events] BY <1>3, <2>1, <2>2
  <2> QED BY <1>2, <2>1, <2>3
<1> DEFINE all  == order \o <<None>>
           stop == {i \in 1 .. Len(all) : all[i] \in Malformed \cup {None}}
<1>5. Len(all) = Len(order) + 1 /\ all[Len(order) + 1] = None
  <2>1. order \in Seq(Events \cup {None}) /\ <<None>> \in Seq(Events \cup {None})
    <3>1. \A i \in 1 .. Len(order) : order[i] \in Events \cup {None} BY <1>4, ElementOfSeq
    <3>2. order \in [1 .. Len(order) -> Events \cup {None}] BY <1>3, <1>4, <3>1
    <3>3. order \in Seq(Events \cup {None}) BY <1>4, <3>2
    <3> QED BY <3>3
  <2>2. Len(<<None>>) = 1 /\ <<None>>[1] = None OBVIOUS
  <2>3. /\ Len(all) = Len(order) + Len(<<None>>)
        /\ \A i \in 1 .. Len(order) + Len(<<None>>) :
              all[i] = IF i <= Len(order) THEN order[i] ELSE <<None>>[i - Len(order)]
    BY <2>1, ConcatProperties
  <2>4. Len(order) + 1 \in 1 .. Len(order) + 1 /\ ~(Len(order) + 1 <= Len(order))
        /\ (Len(order) + 1) - Len(order) = 1
    BY <1>4
  <2> QED BY <2>2, <2>3, <2>4
<1>6. Len(order) + 1 \in stop BY <1>4, <1>5
<1>7. Convertible(order) = (IF stop # {} THEN Min(stop) ELSE 0) - 1
  BY DEF Convertible, SelectInSeq
<1>8. stop \in SUBSET Nat /\ stop # {} BY <1>4, <1>5, <1>6
<1>9. \A i \in stop : i \in 1 .. Len(order) + 1 BY <1>5
<1> HIDE DEF stop, all
<1>10. Min(stop) \in stop BY <1>8, Least DEF Min
<1>11. Convertible(order) \in 0 .. Len(order)
  <2> DEFINE first == Min(stop)
  <2>1. first \in 1 .. Len(order) + 1 BY <1>9, <1>10
  <2>2. Convertible(order) = first - 1 BY <1>7, <1>8
  <2> HIDE DEF first
  <2> QED BY <1>4, <2>1, <2>2
<1> HIDE DEF Convertible
<1>12. \A i \in 1 .. Convertible(order) : order[i] \in Events BY <1>4, <1>11, ElementOfSeq
<1>13. 1 \in Int /\ Convertible(order) \in Int BY <1>4, <1>11
<1> QED BY <1>12, <1>13, SubSeqProperties
-----------------------------------------------------------------------------
(* The types, of the task, of what it remembers and of the rest.            *)

TaskOK ==
    /\ at \in {"reconciling", "connecting", "consuming", "closing", "aborting",
              "backoff", "stopped"}
    /\ connected \in BOOLEAN
    /\ attempt \in 0 .. Len(Backoff)
    /\ wait \in {0} \cup UNION {0 .. Backoff[i] : i \in DOMAIN Backoff}
    /\ silent \in 0 .. LivenessTimeout

SeenOK ==
    /\ lastAge \in Ages \cup {None}
    /\ seen \subseteq Ids /\ Cardinality(seen) <= SeenCap
    /\ handled \in [Events -> 0 .. 2]
    /\ spoilt \subseteq Broken
    /\ forgot \in BOOLEAN

\* What the library may have received: events, and other frames.
Frames == Events \cup {None}

WorldOK ==
    /\ link \in {"down", "up", "dead", "closed"}
    /\ inbox \in Seq(Frames) /\ Len(inbox) <= InboxCap
    /\ age \in [Events -> Ages \cup {None}]

\* The type of every variable, in three parts.
LEMMA Types == /\ TypeOK <=> TaskOK /\ SeenOK /\ WorldOK
               /\ TypeOK' <=> TaskOK' /\ SeenOK' /\ WorldOK'
BY DEF TypeOK, TaskOK, SeenOK, WorldOK, Frames

\* What leaves the variables of a part alone leaves its types alone.
LEMMA TypesStay ==
    /\ TaskOK /\ UNCHANGED taskVars => TaskOK'
    /\ SeenOK /\ UNCHANGED seenVars => SeenOK'
    /\ WorldOK /\ UNCHANGED worldVars => WorldOK'
BY DEF TaskOK, SeenOK, WorldOK, taskVars, seenVars, worldVars

\* The delay of a round that has failed is one of the list, whatever the number of
\* failures: _run_forever does not index beyond its end.
LEMMA PauseTypes ==
    ASSUME TaskOK, NEW failures \in 0 .. Len(Backoff), Pause(failures), UNCHANGED silent
    PROVE  TaskOK'
<1> DEFINE last == Len(Backoff) - 1
           i    == (IF failures < last THEN failures ELSE last) + 1
<1>1. Len(Backoff) \in Nat /\ Len(Backoff) > 0 BY StreamAssumption
<1>2. /\ at' = "backoff" /\ connected' = FALSE /\ wait' = Backoff[i]
      /\ attempt' = IF failures < last THEN failures + 1 ELSE last + 1
  BY DEF Pause
<1>3. i \in 1 .. Len(Backoff) /\ attempt' \in 0 .. Len(Backoff) BY <1>1, <1>2
<1> HIDE DEF i
<1>4. DOMAIN Backoff = 1 .. Len(Backoff) /\ Backoff[i] \in Nat
  BY <1>3, StreamAssumption, LenProperties, ElementOfSeq
<1>5. wait' \in 0 .. Backoff[i] BY <1>2, <1>4
<1> QED BY <1>2, <1>3, <1>4, <1>5 DEF TaskOK

\* Initially the types hold, and nothing has been handled.
LEMMA InitIInv == Init => IInv
<1> SUFFICES ASSUME Init PROVE IInv OBVIOUS
<1>1. /\ LivenessTimeout \in Nat /\ SeenCap \in Nat /\ InboxCap \in Nat
      /\ Len(Backoff) \in Nat
  BY StreamAssumption
<1>2. Cardinality({}) = 0 BY FS_EmptySet
<1>3. TypeOK
  <2>1. TaskOK
    <3>1. 0 \in 0 .. LivenessTimeout /\ 0 \in 0 .. Len(Backoff) BY <1>1
    <3>2. /\ at = "reconciling" /\ connected = FALSE
          /\ attempt = 0 /\ wait = 0 /\ silent = 0
      BY DEF Init
    <3> QED BY <3>1, <3>2 DEF TaskOK
  <2>2. SeenOK
    <3>1. lastAge = None /\ seen = {} /\ spoilt = {} /\ forgot = FALSE BY DEF Init
    <3>2. handled \in [Events -> 0 .. 2] BY DEF Init
    <3>3. Cardinality(seen) <= SeenCap BY <1>1, <1>2, <3>1
    <3> QED BY <3>1, <3>2, <3>3 DEF SeenOK
  <2>3. WorldOK
    <3>1. <<>> \in Seq(Frames) /\ Len(<<>>) = 0 OBVIOUS
    <3> QED BY <1>1, <3>1 DEF Init, WorldOK
  <2> QED BY <2>1, <2>2, <2>3, Types
<1>4. FeedInv BY DEF Init, FeedInv, HandledIsSeen, AtMostOnce, SeenMeansHandled
<1> QED BY <1>3, <1>4 DEF IInv

-----------------------------------------------------------------------------
(* The steps.                                                               *)

\* The steps of the task that hand no event over.
LEMMA QuietKeeps ==
    ASSUME IInv,
           \/ BackoffOver \/ PollFails \/ Connect \/ ConnectFails
           \/ Ignore \/ Aborted \/ ConnectionClosed \/ GiveUp \/ GivenUp \/ Stop
    PROVE  IInv'
<1>1. TaskOK /\ SeenOK /\ WorldOK /\ FeedInv BY Types DEF IInv
<1>2. UNCHANGED seenVars
  BY DEF BackoffOver, PollFails, Connect, ConnectFails, Ignore, Aborted,
         ConnectionClosed, GiveUp, GivenUp, Stop
<1>3. SeenOK' BY <1>1, <1>2, TypesStay
<1>4. FeedInv'
  <2>1. UNCHANGED FeedVars BY <1>2 DEF seenVars, FeedVars
  <2> QED BY <1>1, <2>1, FeedStays
<1>5. WorldOK'
  <2>1. /\ \/ inbox' \in {inbox, <<>>}
           \/ inbox # <<>> /\ inbox' = Tail(inbox)
        /\ UNCHANGED age /\ link' \in {link, "up", "down"}
    BY DEF BackoffOver, PollFails, Connect, ConnectFails, Ignore, Aborted,
           ConnectionClosed, GiveUp, GivenUp, Stop, RoundEnds, worldVars
  <2>2. InboxCap \in Nat /\ Len(<<>>) = 0 /\ <<>> \in Seq(Frames) BY StreamAssumption
  <2>3. inbox' \in Seq(Frames) /\ Len(inbox') <= InboxCap
    <3>1. CASE inbox' = inbox BY <1>1, <3>1 DEF WorldOK
    <3>2. CASE inbox' = <<>> BY <2>2, <3>2
    <3>3. CASE inbox # <<>> /\ inbox' = Tail(inbox)
      <4>1. inbox \in Seq(Frames) /\ Len(inbox) \in Nat /\ Len(inbox) <= InboxCap
        BY <1>1, LenProperties DEF WorldOK
      <4>2. Tail(inbox) \in Seq(Frames) /\ Len(Tail(inbox)) = Len(inbox) - 1
        BY <3>3, <4>1, HeadTailProperties
      <4> QED BY <2>2, <3>3, <4>1, <4>2
    <3> QED BY <2>1, <3>1, <3>2, <3>3
  <2> QED BY <1>1, <2>1, <2>3 DEF WorldOK
<1>6. TaskOK'
  <2>1. LivenessTimeout \in Nat /\ Len(Backoff) \in Nat BY StreamAssumption
  <2>2. attempt \in 0 .. Len(Backoff) /\ 0 \in 0 .. Len(Backoff) BY <1>1, <2>1 DEF TaskOK
  <2>3. CASE BackoffOver \/ PollFails \/ Connect \/ Ignore \/ GiveUp \/ Stop
    <3>1. /\ at' \in {at, "reconciling", "connecting", "consuming", "closing", "stopped"}
          /\ connected' \in {connected, TRUE, FALSE}
          /\ silent' \in {silent, 0}
          /\ UNCHANGED <<attempt, wait>>
      BY <2>3 DEF BackoffOver, PollFails, Connect, Ignore, GiveUp, Stop, taskVars
    <3>2. 0 \in 0 .. LivenessTimeout BY <2>1
    <3> QED BY <1>1, <3>1, <3>2 DEF TaskOK
  <2>4. CASE ConnectFails \/ Aborted
    BY <1>1, <2>2, <2>4, PauseTypes DEF ConnectFails, Aborted
  <2>5. CASE ConnectionClosed \/ GivenUp
    BY <1>1, <2>2, <2>5, PauseTypes DEF ConnectionClosed, GivenUp, RoundEnds
  <2> QED BY <2>3, <2>4, <2>5
<1> QED BY <1>3, <1>4, <1>5, <1>6, Types DEF IInv

\* A poll hands over the hits that can be converted.
LEMMA ReconcileKeeps == ASSUME IInv, Reconcile PROVE IInv'
<1>1. TaskOK /\ SeenOK /\ WorldOK /\ TypeOK /\ FeedInv BY Types DEF IInv
<1>2. PICK order \in SetToSeqs(Hits) :
        /\ \E o \in Replay(order) : Settle(o)
        /\ \/ at' = "connecting" /\ UNCHANGED <<connected, attempt, wait>>
           \/ Pause(attempt)
  BY DEF Reconcile
<1>3. PICK o \in Replay(order) : Settle(o) BY <1>2
<1>4. Sound(o)
  <2>1. seen \subseteq Ids /\ Cardinality(seen) <= SeenCap BY <1>1 DEF SeenOK
  <2> QED BY <1>3, <2>1, ReplayOffers, OffersAreSound DEF Replay
<1>5. FeedInv' /\ SeenOK'
  <2>1. UNCHANGED lastAge BY DEF Reconcile
  <2> QED BY <1>1, <1>3, <1>4, <2>1, SettleKeeps DEF SeenOK
<1>6. UNCHANGED <<silent, worldVars>> BY DEF Reconcile
<1>7. WorldOK' BY <1>1, <1>6, TypesStay
<1>8. TaskOK'
  <2>1. CASE Pause(attempt) BY <1>1, <1>6, <2>1, PauseTypes DEF TaskOK
  <2>2. CASE at' = "connecting" /\ UNCHANGED <<connected, attempt, wait>>
    BY <1>1, <1>6, <2>2 DEF TaskOK
  <2> QED BY <1>2, <2>1, <2>2
<1> QED BY <1>5, <1>7, <1>8, Types DEF IInv

\* recv() hands over the oldest frame.
LEMMA ReceiveKeeps == ASSUME IInv, Receive PROVE IInv'
<1>1. TaskOK /\ SeenOK /\ WorldOK /\ TypeOK /\ FeedInv BY Types DEF IInv
<1>2. inbox \in Seq(Frames) /\ inbox # <<>> /\ Head(inbox) # None /\ Len(inbox) <= InboxCap
  BY <1>1 DEF Receive, WorldOK
<1>3. /\ Head(inbox) \in Events
      /\ Tail(inbox) \in Seq(Frames) /\ Len(Tail(inbox)) = Len(inbox) - 1
      /\ Len(inbox) \in Nat
  BY <1>2, HeadTailProperties, LenProperties DEF Frames
<1>4. PICK o \in Outcomes(Untouched, Head(inbox)) :
        /\ Settle(o)
        /\ lastAge' \in {age[Head(inbox)], lastAge}
        /\ lastAge' = age[Head(inbox)] \/ lastAge' = lastAge
  BY DEF Receive
<1>5. Sound(o)
  <2>1. seen \subseteq Ids /\ Cardinality(seen) <= SeenCap BY <1>1 DEF SeenOK
  <2> QED BY <1>3, <1>4, <2>1, UntouchedIsSound, OfferIsSound
<1>6. FeedInv' /\ SeenOK'
  <2>1. lastAge' \in Ages \cup {None}
    BY <1>1, <1>3, <1>4 DEF SeenOK, WorldOK
  <2> QED BY <1>1, <1>4, <1>5, <2>1, SettleKeeps DEF SeenOK
<1>7. WorldOK'
  <2>1. inbox' = Tail(inbox) /\ UNCHANGED <<link, age>> BY DEF Receive
  <2>2. Len(Tail(inbox)) <= InboxCap BY <1>2, <1>3, StreamAssumption
  <2> QED BY <1>1, <1>3, <2>1, <2>2 DEF WorldOK
<1>8. TaskOK'
  <2>1. silent' = 0 /\ UNCHANGED <<at, connected, attempt, wait>> BY DEF Receive
  <2>2. 0 \in 0 .. LivenessTimeout BY StreamAssumption
  <2> QED BY <1>1, <2>1, <2>2 DEF TaskOK
<1> QED BY <1>6, <1>7, <1>8, Types DEF IInv

\* A frame that raises may leave an id behind, and no event.
LEMMA RaisingKeeps == ASSUME IInv, FrameRaises PROVE IInv'
<1>1. TaskOK /\ SeenOK /\ WorldOK /\ TypeOK /\ FeedInv BY Types DEF IInv
<1>2. /\ Head(inbox) \in Broken
      /\ Spoil(Head(inbox)) \/ UNCHANGED seenVars
      /\ at' = "aborting" /\ link' = "down" /\ inbox' = <<>> /\ silent' = 0
      /\ UNCHANGED <<connected, attempt, wait, age>>
  BY DEF FrameRaises
<1>3. FeedInv' /\ SeenOK'
  <2>1. CASE Spoil(Head(inbox)) BY <1>1, <1>2, <2>1, SpoilKeeps DEF SeenOK
  <2>2. CASE UNCHANGED seenVars
    <3>1. UNCHANGED FeedVars BY <2>2 DEF seenVars, FeedVars
    <3> QED BY <1>1, <2>2, <3>1, FeedStays, TypesStay
  <2> QED BY <1>2, <2>1, <2>2
<1>4. WorldOK'
  <2>1. <<>> \in Seq(Frames) /\ Len(<<>>) = 0 /\ InboxCap \in Nat BY StreamAssumption
  <2> QED BY <1>1, <1>2, <2>1 DEF WorldOK
<1>5. TaskOK'
  <2>1. 0 \in 0 .. LivenessTimeout BY StreamAssumption
  <2> QED BY <1>1, <1>2, <2>1 DEF TaskOK
<1> QED BY <1>3, <1>4, <1>5, Types DEF IInv

\* An age stays an age as time passes.
LEMMA OlderTypes == \A a \in Ages \cup {None} : Older(a) \in Ages \cup {None}
<1>1. AgeCap \in Nat BY StreamAssumption DEF AgeCap
<1>2. None \notin Nat BY StreamAssumption
<1> QED BY <1>1, <1>2 DEF Older, Ages

\* The steps of the controller, the network and time.
LEMMA WorldKeeps == ASSUME IInv, World PROVE IInv'
<1>1. TaskOK /\ SeenOK /\ WorldOK /\ FeedInv BY Types DEF IInv
<1>2. CASE Tick
  <2>1. /\ age' = [e \in Events |-> Older(age[e])]
        /\ lastAge' = Older(lastAge)
        /\ wait' = IF wait > 0 THEN wait - 1 ELSE 0
        /\ silent' = IF at = "consuming" /\ silent < LivenessTimeout THEN silent + 1
                     ELSE silent
        /\ UNCHANGED <<at, connected, attempt, seen, handled, spoilt, forgot, link, inbox>>
    BY <1>2 DEF Tick
  <2>2. WorldOK'
    <3>1. age' \in [Events -> Ages \cup {None}] BY <1>1, <2>1, OlderTypes DEF WorldOK
    <3> QED BY <1>1, <2>1, <3>1 DEF WorldOK
  <2>3. SeenOK'
    <3>1. lastAge' \in Ages \cup {None} BY <1>1, <2>1, OlderTypes DEF SeenOK
    <3> QED BY <1>1, <2>1, <3>1 DEF SeenOK
  <2>4. wait' \in {0} \cup UNION {0 .. Backoff[i] : i \in DOMAIN Backoff}
    <3>1. \A i \in DOMAIN Backoff : Backoff[i] \in Nat BY StreamAssumption
    <3>2. CASE wait = 0 BY <2>1, <3>2
    <3>3. CASE wait # 0
      <4>1. PICK i \in DOMAIN Backoff : wait \in 0 .. Backoff[i] BY <1>1, <3>3 DEF TaskOK
      <4>2. wait' \in 0 .. Backoff[i] BY <2>1, <3>1, <3>3, <4>1
      <4> QED BY <4>2
    <3> QED BY <3>2, <3>3
  <2>5. silent' \in 0 .. LivenessTimeout BY <1>1, <2>1, StreamAssumption DEF TaskOK
  <2>6. TaskOK' BY <1>1, <2>1, <2>4, <2>5 DEF TaskOK
  <2>7. UNCHANGED FeedVars BY <2>1 DEF FeedVars
  <2> QED BY <1>1, <2>2, <2>3, <2>6, <2>7, FeedStays, Types DEF IInv
<1>3. ASSUME UNCHANGED <<taskVars, seenVars>>, WorldOK' PROVE IInv'
  <2>1. UNCHANGED FeedVars BY <1>3 DEF seenVars, FeedVars
  <2> QED BY <1>1, <1>3, <2>1, FeedStays, TypesStay, Types DEF IInv
<1>4. ASSUME NEW e \in Frames, Len(inbox) < InboxCap, Arrives(e), UNCHANGED link,
             age' \in [Events -> Ages \cup {None}]
      PROVE  WorldOK'
  <2>1. inbox \in Seq(Frames) /\ Len(inbox) \in Nat BY <1>1, LenProperties DEF WorldOK
  <2>2. /\ Append(inbox, e) \in Seq(Frames)
        /\ Len(Append(inbox, e)) = Len(inbox) + 1
    BY <2>1, AppendProperties
  <2>3. InboxCap \in Nat BY StreamAssumption
  <2>4. inbox' \in Seq(Frames) /\ Len(inbox') <= InboxCap
    BY <1>4, <2>1, <2>2, <2>3 DEF Arrives
  <2> QED BY <1>1, <1>4, <2>4 DEF WorldOK
<1>5. CASE \E e \in Events : Happen(e)
  <2>1. PICK e \in Events : Happen(e) BY <1>5
  <2>2. 0 \in Ages BY StreamAssumption DEF Ages, AgeCap
  <2>3. age' \in [Events -> Ages \cup {None}] BY <1>1, <2>1, <2>2 DEF Happen, WorldOK
  <2> QED BY <1>3, <1>4, <2>1, <2>3 DEF Happen, Frames
<1>6. CASE \E e \in Events : Repeat(e)
  <2>1. PICK e \in Events : Repeat(e) BY <1>6
  <2>2. age' \in [Events -> Ages \cup {None}] BY <1>1, <2>1 DEF Repeat, WorldOK
  <2> QED BY <1>3, <1>4, <2>1, <2>2 DEF Repeat, Frames
<1>8. CASE Hello
  <2>1. age' \in [Events -> Ages \cup {None}] BY <1>1, <1>8 DEF Hello, WorldOK
  <2> QED BY <1>3, <1>4, <1>8, <2>1 DEF Hello, Frames
<1>7. CASE \E how \in {"closed", "dead"} : Break(how)
  <2>1. WorldOK' BY <1>1, <1>7 DEF Break, WorldOK
  <2> QED BY <1>3, <1>7, <2>1 DEF Break
<1> QED BY <1>2, <1>5, <1>6, <1>7, <1>8 DEF World

\* Every step keeps the invariant.
LEMMA NextIInv == IInv /\ [Next]_vars => IInv'
<1> SUFFICES ASSUME IInv, [Next]_vars PROVE IInv' OBVIOUS
<1>1. CASE UNCHANGED vars
  <2>1. TaskOK /\ SeenOK /\ WorldOK /\ FeedInv BY Types DEF IInv
  <2>2. UNCHANGED taskVars /\ UNCHANGED seenVars /\ UNCHANGED worldVars BY <1>1 DEF vars
  <2>3. UNCHANGED FeedVars BY <2>2 DEF seenVars, FeedVars
  <2> QED BY <2>1, <2>2, <2>3, FeedStays, TypesStay, Types DEF IInv
<1>2. CASE Next
  BY <1>2, QuietKeeps, ReconcileKeeps, ReceiveKeeps, RaisingKeeps, WorldKeeps
  DEF Next, Task
<1> QED BY <1>1, <1>2

\* The invariant that the theorems are parts of.
LEMMA FeedInvariant == Spec => []IInv
BY InitIInv, NextIInv, PTL DEF Spec

\* Every variable of AccessEventStream keeps its type, with any events, delays and
\* bounds: the set of seen ids stays within its cap although a poll offers any number of
\* hits at once, and the delay is always one of the list.
THEOREM StreamTypes == Spec => []TypeOK
<1>1. IInv => TypeOK BY DEF IInv
<1> QED BY <1>1, FeedInvariant, PTL

\* Of all the deliveries and log entries of one id, on_event is called with one, and
\* once, until _remember has had to forget an id.
THEOREM EventsAreHandledOnce == Spec => []AtMostOnce
<1>1. IInv => AtMostOnce BY DEF IInv, FeedInv
<1> QED BY <1>1, FeedInvariant, PTL

\* Whatever id is remembered, an event with it was handed to on_event, or its frame
\* raised between the two: no other failure, the entry of the log that makes the poll
\* raise half way included, leaves an id behind.
THEOREM SeenIsHandled == Spec => []SeenMeansHandled
<1>1. IInv => SeenMeansHandled BY DEF IInv, FeedInv
<1> QED BY <1>1, FeedInvariant, PTL
=============================================================================
