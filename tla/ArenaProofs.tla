----------------------------- MODULE ArenaProofs -----------------------------
(***************************************************************************)
(* Theorems about Arena, for every number of planets, every chain of kinds,*)
(* every score table and every frame length.                               *)
(***************************************************************************)
EXTENDS Arena, FiniteSetTheorems, WellFoundedInduction, TLAPS

-----------------------------------------------------------------------------
(* What the handlers of Planet return.                                     *)

\* Fresh is one of the identities not used so far.
LEMMA FreshNotBorn ==
  ASSUME NEW ps, NotBorn(ps) # {}
  PROVE  Fresh(ps) \in PlanetId /\ ps[Fresh(ps)].status = "unborn"
BY DEF Fresh, NotBorn

\* Giving planets a life time keeps them planets (SetLifeTime).
LEMMA SetLifeTimeType ==
  ASSUME NEW ps \in [PlanetId -> PlanetState], NEW S, NEW t \in LifeTime
  PROVE  SetLifeTime(ps, S, t) \in [PlanetId -> PlanetState]
BY DEF SetLifeTime, PlanetState

\* A new planet is a planet (orxObject_CreateFromConfig).
LEMMA CreateType ==
  ASSUME NEW ps \in [PlanetId -> PlanetState], NEW id \in PlanetId, NEW k \in Kind
  PROVE  CreateFromConfig(ps, id, k) \in [PlanetId -> PlanetState]
BY DEF CreateFromConfig, PlanetState, LifeTime, TimerTime

\* The deletion pass keeps planets planets.
LEMMA AgeType ==
  ASSUME NEW ps \in [PlanetId -> PlanetState], NEW dt \in FrameTimes
  PROVE  Age(ps, dt) \in [PlanetId -> PlanetState]
BY PlanetAssumption, ConfigAssumption DEF Age, Expired, PlanetState, LifeTime, TimerTime, Forever

\* Updating a timer keeps planets planets: a timer past the limit is dropped.
LEMMA UpdateTimerType ==
  ASSUME NEW ps \in [PlanetId -> PlanetState], NEW p \in PlanetId, NEW dt \in FrameTimes
  PROVE  UpdateTimer(ps, p, dt) \in [PlanetId -> PlanetState]
BY PlanetAssumption, ConfigAssumption DEF UpdateTimer, TimeUp, PlanetState, TimerTime, NoTimer

\* A contact either leaves the board alone or merges once, with one of the two
\* planets as the one whose handler runs first: in the second call neither planet
\* has a life time other than 0 left.
LEMMA ContactOnce ==
  ASSUME NEW ps \in [PlanetId -> PlanetState], NEW s, NEW par,
         NEW p \in PlanetId, NEW q \in PlanetId, p # q,
         NotBorn(ps) # {}, ps[p].status = "live", ps[q].status = "live"
  PROVE  LET board == [planets |-> ps, score |-> s, parents |-> par]
         IN  \/ OnContact(board, p, q) = board
             \/ /\ EqualModelName(ps, p, q) /\ CanMerge(ps, p, q)
                /\ OnContact(board, p, q) = Merge(board, p, q)
<1> DEFINE board == [planets |-> ps, score |-> s, parents |-> par]
           id    == Fresh(ps)
           after == Merge(board, p, q)
<1>1. id \in PlanetId /\ ps[id].status = "unborn"
  BY FreshNotBorn
<1>2. CASE EqualModelName(ps, p, q) /\ CanMerge(ps, p, q)
  <2>1. OnCollide(board, p, q) = after
    BY <1>2 DEF OnCollide, OnPlanetCollide
  <2>2. after.planets[q].life = 0
    BY <1>1 DEF Merge, CreateFromConfig, SetLifeTime, PlanetState
  <2>3. OnCollide(after, q, p) = after
    BY <2>2 DEF OnCollide, OnPlanetCollide, CanMerge
  <2> QED BY <1>2, <2>1, <2>3 DEF OnContact
<1>3. CASE ~(EqualModelName(ps, p, q) /\ CanMerge(ps, p, q))
  <2>1. OnCollide(board, p, q) = board
    BY <1>3 DEF OnCollide, OnPlanetCollide
  <2>2. ~(EqualModelName(ps, q, p) /\ CanMerge(ps, q, p))
    BY <1>3 DEF EqualModelName, CanMerge
  <2>3. OnCollide(board, q, p) = board
    BY <2>2 DEF OnCollide, OnPlanetCollide
  <2> QED BY <2>1, <2>3 DEF OnContact
<1> QED BY <1>2, <1>3

-----------------------------------------------------------------------------
(* Type correctness.                                                       *)

\* The first state is well typed.
LEMMA InitTyped == Init => TypeOK
BY PlanetAssumption, ConfigAssumption DEF Init, TypeOK, PlanetState, Unborn, LifeTime, TimerTime, Kind

\* Every action keeps the state well typed.
LEMMA NextTyped == TypeOK /\ [Next]_vars => TypeOK'
<1> SUFFICES ASSUME TypeOK, [Next]_vars PROVE TypeOK'
  OBVIOUS
<1> USE DEF TypeOK
<1>1. ASSUME NEW k \in DropKinds, Drop(k) PROVE TypeOK'
  <2>1. Fresh(planets) \in PlanetId /\ k \in Kind
    BY <1>1, FreshNotBorn, PlanetAssumption, ConfigAssumption DEF Drop
  <2> QED BY <1>1, <2>1, CreateType DEF Drop
<1>2. ASSUME NEW p \in PlanetId, NEW q \in PlanetId, Contact(p, q) PROVE TypeOK'
  <2> DEFINE board == [planets |-> planets, score |-> score, parents |-> parents]
  <2>1. PICK b : /\ b = board \/ (CanMerge(planets, p, q) /\ b = Merge(board, p, q))
                 /\ planets' = b.planets /\ score' = b.score /\ parents' = b.parents
    BY <1>2, ContactOnce DEF Contact, Live
  <2>2. CASE b = board
    BY <1>2, <2>1, <2>2 DEF Contact
  <2>3. CASE CanMerge(planets, p, q) /\ b = Merge(board, p, q)
    <3> DEFINE next == planets[p].kind + 1
    <3>1. next \in Kind
      BY <2>3, PlanetAssumption, ConfigAssumption DEF CanMerge, HasNext, PlanetState, Kind
    <3>2. Fresh(planets) \in PlanetId
      BY <1>2, FreshNotBorn DEF Contact
    <3>3. planets' \in [PlanetId -> PlanetState]
      <4>1. SetLifeTime(planets, {p, q}, 0) \in [PlanetId -> PlanetState]
        BY SetLifeTimeType, PlanetAssumption, ConfigAssumption DEF LifeTime
      <4>2. CreateFromConfig(SetLifeTime(planets, {p, q}, 0), Fresh(planets), next)
              \in [PlanetId -> PlanetState]
        BY <3>1, <3>2, <4>1, CreateType
      <4> QED BY <2>1, <2>3, <4>2 DEF Merge
    <3>4. score' \in Nat
      BY <2>1, <2>3, <3>1, PlanetAssumption, ConfigAssumption DEF Merge
    <3>5. parents' \in [PlanetId -> SUBSET PlanetId]
      BY <2>1, <2>3, <3>2 DEF Merge
    <3> QED BY <1>2, <3>3, <3>4, <3>5 DEF Contact
  <2> QED BY <2>1, <2>2, <2>3
<1>3. ASSUME NEW p \in PlanetId, TopEnter(p) PROVE TypeOK'
  BY <1>3, PlanetAssumption, ConfigAssumption
  DEF TopEnter, OnArenaTopCollide, PlanetState, TimerTime, MaxTouch
<1>4. ASSUME NEW p \in PlanetId, TopLeave(p) PROVE TypeOK'
  BY <1>4 DEF TopLeave, OnArenaTopSeparate, PlanetState, TimerTime
<1>5. ASSUME NEW p \in PlanetId, NEW dt \in FrameTimes, UpdatePlanet(p, dt) PROVE TypeOK'
  <2>1. planets' \in [PlanetId -> PlanetState]
    <3>1. GameOverTrigger(planets, Live(planets)) \in [PlanetId -> PlanetState]
      BY SetLifeTimeType, PlanetAssumption, ConfigAssumption DEF GameOverTrigger, LifeTime
    <3>2. UpdateTimer(GameOverTrigger(planets, Live(planets)), p, dt) \in [PlanetId -> PlanetState]
      BY <3>1, UpdateTimerType
    <3>3. UpdateTimer(planets, p, dt) \in [PlanetId -> PlanetState]
      BY UpdateTimerType
    <3> QED BY <1>5, <3>2, <3>3 DEF UpdatePlanet
  <2>2. touch' \in [PlanetId -> {NoTouch} \cup 0 .. MaxTouch]
    BY <1>5, PlanetAssumption, ConfigAssumption DEF UpdatePlanet, Touched, MaxTouch, NoTouch
  <2> QED BY <1>5, <2>1, <2>2 DEF UpdatePlanet, EndGame
<1>6. CASE GameOverInput
  <2>1. planets' \in [PlanetId -> PlanetState]
    BY <1>6, SetLifeTimeType, PlanetAssumption, ConfigAssumption DEF GameOverInput, GameOverTrigger, LifeTime
  <2> QED BY <1>6, <2>1 DEF GameOverInput, EndGame
<1>7. ASSUME NEW dt \in FrameTimes, DeleteExpired(dt) PROVE TypeOK'
  BY <1>7, AgeType DEF DeleteExpired
<1>8. CASE UNCHANGED vars
  BY <1>8 DEF vars
<1> QED BY <1>1, <1>2, <1>3, <1>4, <1>5, <1>6, <1>7, <1>8 DEF Next

\* Every reachable state of an arena of any size is well typed.
THEOREM TypeCorrect == Spec => []TypeOK
BY InitTyped, NextTyped, PTL DEF Spec

-----------------------------------------------------------------------------
(* No planet is merged twice.                                              *)

Spent(p) == \/ planets[p].status = "gone"
            \/ planets[p].status = "live" /\ planets[p].life = 0

\* What makes MergedOnce inductive: until GameOver, a planet that went into a merge
\* is deleted or still pending deletion.  OnPlanetCollide refuses such a planet, and
\* nothing but the GameOver trigger gives it a life time again.
ParentsSpent ==
  over = "no" => \A p, q \in PlanetId : p \in parents[q] => Spent(p)

MergeInv == TypeOK /\ ParentsSpent /\ MergedOnce

\* A step that keeps the parents and the spent planets as they are keeps MergeInv.
LEMMA SpentStaysSpent ==
  ASSUME MergeInv, TypeOK', parents' = parents,
         over' = "no" => over = "no",
         \A p \in PlanetId : Spent(p) => over' # "no" \/ Spent(p)'
  PROVE  MergeInv'
BY DEF MergeInv, ParentsSpent, MergedOnce

\* MergeInv holds at the start and every step preserves it.
LEMMA MergeInvInductive ==
  /\ Init => MergeInv
  /\ MergeInv /\ [Next]_vars => MergeInv'
<1>1. Init => MergeInv
  BY InitTyped DEF Init, MergeInv, ParentsSpent, MergedOnce
<1>2. ASSUME MergeInv, [Next]_vars PROVE MergeInv'
  <2> USE <1>2
  <2>0. TypeOK /\ TypeOK'
    BY NextTyped DEF MergeInv
  <2>1. ASSUME NEW k \in DropKinds, Drop(k) PROVE MergeInv'
    <3>1. Fresh(planets) \in PlanetId /\ planets[Fresh(planets)].status = "unborn"
      BY <2>1, FreshNotBorn DEF Drop
    <3> QED BY <2>0, <2>1, <3>1, SpentStaysSpent DEF Drop, CreateFromConfig, Spent, TypeOK
  <2>2. ASSUME NEW p \in PlanetId, NEW q \in PlanetId, Contact(p, q) PROVE MergeInv'
    <3> DEFINE board == [planets |-> planets, score |-> score, parents |-> parents]
               id    == Fresh(planets)
    <3>1. PICK b : /\ b = board \/ (CanMerge(planets, p, q) /\ b = Merge(board, p, q))
                   /\ planets' = b.planets /\ parents' = b.parents
      BY <2>0, <2>2, ContactOnce DEF Contact, Live, TypeOK
    <3>2. CASE b = board
      BY <2>0, <2>2, <3>1, <3>2, SpentStaysSpent DEF Contact, Spent
    <3>3. CASE CanMerge(planets, p, q) /\ b = Merge(board, p, q)
      <4>1. id \in PlanetId /\ planets[id].status = "unborn"
        BY <2>2, FreshNotBorn DEF Contact
      <4>2. parents' = [parents EXCEPT ![id] = {p, q}]
        BY <3>1, <3>3 DEF Merge
      <4>3. \A r \in PlanetId :
              planets'[r] = IF r = id THEN planets'[id]
                            ELSE IF r \in {p, q} THEN [planets[r] EXCEPT !.life = 0]
                            ELSE planets[r]
        BY <3>1, <3>3, <4>1 DEF Merge, CreateFromConfig, SetLifeTime
      <4>4. ~Spent(p) /\ ~Spent(q) /\ id # p /\ id # q /\ ~Spent(id)
        BY <2>2, <3>3, <4>1 DEF Contact, Live, CanMerge, Spent
      <4>5. Spent(p)' /\ Spent(q)'
        BY <2>0, <2>2, <4>3, <4>4 DEF Contact, Live, Spent, TypeOK, PlanetState
      <4>6. \A r \in PlanetId : Spent(r) => Spent(r)'
        BY <4>3, <4>4, <4>5 DEF Spent
      <4>7. over' = over
        BY <2>2 DEF Contact
      <4>8. ParentsSpent'
        BY <2>0, <4>1, <4>2, <4>5, <4>6, <4>7 DEF MergeInv, ParentsSpent, TypeOK
      <4>9. MergedOnce'
        <5> SUFFICES ASSUME over' = "no", NEW r \in PlanetId, NEW s \in PlanetId, r # s
                     PROVE  parents'[r] \cap parents'[s] = {}
          BY DEF MergedOnce
        <5>1. p \notin parents[r] /\ q \notin parents[r] /\ p \notin parents[s] /\ q \notin parents[s]
          BY <2>2, <4>4, <4>7 DEF MergeInv, ParentsSpent, Contact, Live
        <5>2. parents[r] \cap parents[s] = {}
          BY <4>7 DEF MergeInv, MergedOnce
        <5> QED BY <2>0, <4>1, <4>2, <5>1, <5>2 DEF TypeOK
      <4> QED BY <2>0, <4>8, <4>9 DEF MergeInv
    <3> QED BY <3>1, <3>2, <3>3
  <2>3. ASSUME NEW p \in PlanetId, TopEnter(p) PROVE MergeInv'
    BY <2>0, <2>3, SpentStaysSpent DEF TopEnter, OnArenaTopCollide, Spent, TypeOK, PlanetState
  <2>4. ASSUME NEW p \in PlanetId, TopLeave(p) PROVE MergeInv'
    BY <2>0, <2>4, SpentStaysSpent DEF TopLeave, OnArenaTopSeparate, Spent, TypeOK, PlanetState
  <2>5. ASSUME NEW p \in PlanetId, NEW dt \in FrameTimes, UpdatePlanet(p, dt) PROVE MergeInv'
    <3>1. CASE TimeUp(planets[p], dt)
      BY <2>0, <2>5, <3>1, SpentStaysSpent DEF UpdatePlanet, EndGame
    <3>2. CASE ~TimeUp(planets[p], dt)
      <4>1. \A r \in PlanetId : Spent(r) => Spent(r)'
        BY <2>0, <2>5, <3>2 DEF UpdatePlanet, UpdateTimer, Spent, TypeOK, PlanetState
      <4> QED BY <2>0, <2>5, <3>2, <4>1, SpentStaysSpent DEF UpdatePlanet
    <3> QED BY <3>1, <3>2
  <2>6. CASE GameOverInput
    BY <2>0, <2>6, SpentStaysSpent DEF GameOverInput, EndGame
  <2>7. ASSUME NEW dt \in FrameTimes, DeleteExpired(dt) PROVE MergeInv'
    <3>1. \A p \in PlanetId : Spent(p) => Spent(p)'
      BY <2>0, <2>7, PlanetAssumption, ConfigAssumption DEF DeleteExpired, Age, Expired, Spent, Forever, TypeOK, PlanetState
    <3> QED BY <2>0, <2>7, <3>1, SpentStaysSpent DEF DeleteExpired
  <2>8. CASE UNCHANGED vars
    BY <2>0, <2>8, SpentStaysSpent DEF vars, Spent
  <2> QED BY <2>1, <2>2, <2>3, <2>4, <2>5, <2>6, <2>7, <2>8 DEF Next
<1> QED BY <1>1, <1>2

\* Until GameOver, no planet is consumed by two merges, in an arena of any size and
\* for any order of contacts, updates and deletions.
THEOREM NoDoubleMerge == Spec => []MergedOnce
<1>1. Spec => []MergeInv
  BY MergeInvInductive, PTL DEF Spec
<1>2. MergeInv => MergedOnce
  BY DEF MergeInv
<1> QED BY <1>1, <1>2, PTL

-----------------------------------------------------------------------------
(* The game ends only for a planet that rested at the top for too long.    *)

TimerInv == TypeOK /\ TimerIsTouch

\* TimerInv holds at the start and every step preserves it.
LEMMA TimerInvInductive ==
  /\ Init => TimerInv
  /\ TimerInv /\ [Next]_vars => TimerInv'
<1>1. Init => TimerInv
  BY InitTyped DEF Init, TimerInv, TimerIsTouch, Live, Unborn
<1>2. ASSUME TimerInv, [Next]_vars PROVE TimerInv'
  <2> USE <1>2
  <2>0. TypeOK /\ TypeOK' /\ TimerIsTouch
    BY NextTyped DEF TimerInv
  <2> SUFFICES TimerIsTouch'
    BY <2>0 DEF TimerInv
  <2>1. ASSUME NEW k \in DropKinds, Drop(k) PROVE TimerIsTouch'
    <3>1. Fresh(planets) \in PlanetId
      BY <2>1, FreshNotBorn DEF Drop
    <3> QED BY <2>0, <2>1, <3>1 DEF Drop, CreateFromConfig, TimerIsTouch, Live, TypeOK
  <2>2. ASSUME NEW p \in PlanetId, NEW q \in PlanetId, Contact(p, q) PROVE TimerIsTouch'
    <3> DEFINE board == [planets |-> planets, score |-> score, parents |-> parents]
    <3>1. PICK b : /\ b = board \/ (CanMerge(planets, p, q) /\ b = Merge(board, p, q))
                   /\ planets' = b.planets
      BY <2>0, <2>2, ContactOnce DEF Contact, Live, TypeOK
    <3>2. Fresh(planets) \in PlanetId
      BY <2>2, FreshNotBorn DEF Contact
    <3>3. CASE b = board
      BY <2>0, <2>2, <3>1, <3>3 DEF Contact, TimerIsTouch, Live
    <3>4. CASE b = Merge(board, p, q)
      <4>1. \A r \in PlanetId : \/ planets'[r].timer = NoTimer
                                \/ /\ planets'[r].timer = planets[r].timer
                                   /\ planets'[r].status = planets[r].status
        <5> DEFINE id  == Fresh(planets)
                   new == planets[p].kind + 1
        <5>1. planets' = CreateFromConfig(SetLifeTime(planets, {p, q}, 0), id, new)
          BY <3>1, <3>4 DEF Merge
        <5>2. planets'[id].timer = NoTimer
          BY <3>2, <5>1 DEF CreateFromConfig, SetLifeTime
        <5>3. \A r \in PlanetId : r # id => planets'[r] = SetLifeTime(planets, {p, q}, 0)[r]
          BY <3>2, <5>1 DEF CreateFromConfig, SetLifeTime
        <5>4. \A r \in PlanetId : r # id => /\ planets'[r].timer = planets[r].timer
                                            /\ planets'[r].status = planets[r].status
          BY <2>0, <5>3 DEF SetLifeTime, TypeOK, PlanetState
        <5> QED BY <3>2, <5>2, <5>4
      <4> QED BY <2>0, <2>2, <4>1 DEF Contact, TimerIsTouch, Live
    <3> QED BY <3>1, <3>3, <3>4
  <2>3. ASSUME NEW p \in PlanetId, TopEnter(p) PROVE TimerIsTouch'
    BY <2>0, <2>3 DEF TopEnter, OnArenaTopCollide, TimerIsTouch, Live, TypeOK, PlanetState
  <2>4. ASSUME NEW p \in PlanetId, TopLeave(p) PROVE TimerIsTouch'
    BY <2>0, <2>4 DEF TopLeave, OnArenaTopSeparate, TimerIsTouch, Live, TypeOK, PlanetState
  <2>5. ASSUME NEW p \in PlanetId, NEW dt \in FrameTimes, UpdatePlanet(p, dt) PROVE TimerIsTouch'
    <3>1. CASE TimeUp(planets[p], dt)
      <4>1. \A r \in PlanetId : \/ planets'[r].timer = NoTimer
                                \/ /\ planets'[r].timer = planets[r].timer
                                   /\ planets'[r].status = planets[r].status
                                   /\ r # p
        <5> DEFINE ended == GameOverTrigger(planets, Live(planets))
        <5>1. planets' = UpdateTimer(ended, p, dt)
          BY <2>5, <3>1 DEF UpdatePlanet
        <5>2. ended \in [PlanetId -> PlanetState]
          BY <2>0, SetLifeTimeType, PlanetAssumption, ConfigAssumption DEF GameOverTrigger, LifeTime, TypeOK
        <5>3. \A r \in PlanetId : /\ ended[r].timer = planets[r].timer
                                  /\ ended[r].status = planets[r].status
          BY <2>0 DEF GameOverTrigger, SetLifeTime, TypeOK, PlanetState
        <5>4. TimeUp(ended[p], dt)
          BY <3>1, <5>3 DEF TimeUp
        <5>5. planets'[p].timer = NoTimer
          BY <5>1, <5>2, <5>4 DEF UpdateTimer, PlanetState
        <5>6. \A r \in PlanetId : r # p => planets'[r] = ended[r]
          BY <5>1, <5>2 DEF UpdateTimer
        <5> QED BY <5>3, <5>5, <5>6
      <4> QED BY <2>0, <2>5, <4>1 DEF UpdatePlanet, TimerIsTouch, Live, TypeOK
    <3>2. CASE ~TimeUp(planets[p], dt)
      <4>1. planets' = UpdateTimer(planets, p, dt) /\ touch' = [touch EXCEPT ![p] = Touched(@, dt)]
        BY <2>5, <3>2 DEF UpdatePlanet
      <4>2. \A r \in PlanetId : planets'[r].status = planets[r].status
        BY <2>0, <4>1 DEF UpdateTimer, TypeOK, PlanetState
      <4>3. \A r \in PlanetId : r # p => planets'[r].timer = planets[r].timer /\ touch'[r] = touch[r]
        BY <2>0, <4>1 DEF UpdateTimer, TypeOK, PlanetState
      <4>4. planets'[p].timer = IF planets[p].timer = NoTimer THEN NoTimer ELSE planets[p].timer + dt
        BY <2>0, <3>2, <4>1 DEF UpdateTimer, TimeUp, NoTimer, TypeOK, PlanetState
      <4>5. planets[p].timer # NoTimer => touch'[p] = planets[p].timer + dt
        BY <2>0, <2>5, <3>2, <4>1, PlanetAssumption, ConfigAssumption
        DEF UpdatePlanet, TimerIsTouch, TimeUp, Touched, NoTimer, NoTouch,
            TypeOK, PlanetState, TimerTime, MaxTouch
      <4> QED BY <2>0, <4>2, <4>3, <4>4, <4>5 DEF TimerIsTouch, Live
    <3> QED BY <3>1, <3>2
  <2>6. CASE GameOverInput
    BY <2>0, <2>6
    DEF GameOverInput, GameOverTrigger, SetLifeTime, TimerIsTouch, Live, TypeOK, PlanetState
  <2>7. ASSUME NEW dt \in FrameTimes, DeleteExpired(dt) PROVE TimerIsTouch'
    <3>1. \A r \in PlanetId : planets'[r].status = "live" =>
            planets[r].status = "live" /\ planets'[r].timer = planets[r].timer
      BY <2>0, <2>7 DEF DeleteExpired, Age, TypeOK, PlanetState
    <3> QED BY <2>0, <2>7, <3>1 DEF DeleteExpired, TimerIsTouch, Live
  <2>8. CASE UNCHANGED vars
    BY <2>0, <2>8 DEF vars, TimerIsTouch, Live
  <2> QED BY <2>1, <2>2, <2>3, <2>4, <2>5, <2>6, <2>7, <2>8 DEF Next
<1> QED BY <1>1, <1>2

\* A running timer always shows the time since the planet's contact with the arena
\* top began, whatever enters, leaves, merges and is deleted meanwhile.
THEOREM TimersMeasureContact == Spec => []TimerIsTouch
<1>1. Spec => []TimerInv
  BY TimerInvInductive, PTL DEF Spec
<1>2. TimerInv => TimerIsTouch
  BY DEF TimerInv
<1> QED BY <1>1, <1>2, PTL

\* Planet::Update fires GameOver only for a planet in unbroken contact with the
\* arena top for longer than the limit.
THEOREM GameOverIsEarned == Spec => NoEarlyGameOver
<1> DEFINE Earned == over = "no" /\ over' = "top" => \E p \in PlanetId : touch'[p] > TopLimit
<1>1. Spec => []TimerInv
  BY TimerInvInductive, PTL DEF Spec
<1>2. ASSUME TimerInv, Next PROVE Earned
  <2> SUFFICES ASSUME over = "no", over' = "top"
               PROVE  \E p \in PlanetId : touch'[p] > TopLimit
    OBVIOUS
  <2>1. PICK p \in PlanetId, dt \in FrameTimes : UpdatePlanet(p, dt) /\ TimeUp(planets[p], dt)
    BY <1>2
    DEF Next, Drop, Contact, TopEnter, TopLeave, UpdatePlanet, GameOverInput, EndGame, DeleteExpired
  <2>2. touch[p] = planets[p].timer /\ touch[p] # NoTouch
    BY <1>2, <2>1 DEF TimerInv, TimerIsTouch, UpdatePlanet, TimeUp, NoTimer, NoTouch
  <2>3. touch'[p] = MaxTouch
    BY <1>2, <2>1, <2>2 DEF TimerInv, TypeOK, UpdatePlanet, TimeUp, Touched
  <2> QED BY <2>3, PlanetAssumption, ConfigAssumption DEF MaxTouch
<1>3. TimerInv /\ [Next]_vars => [Earned]_vars
  BY <1>2
<1> QED BY <1>1, <1>3, PTL DEF Spec, NoEarlyGameOver

-----------------------------------------------------------------------------
(* Sums over sets of planets.                                              *)

\* Among the sets of planets in a family there is one with no other below it.
LEMMA SmallestSet ==
  ASSUME NEW F \in SUBSET (SUBSET PlanetId), F # {}
  PROVE  \E S \in F : \A U \in SUBSET S : U # S => U \notin F
<1> DEFINE R == StrictSubsetOrdering(PlanetId)
<1>1. IsWellFoundedOn(R, FiniteSubsetsOf(PlanetId))
  BY FS_StrictSubsetOrderingWellFounded
<1>2. F \subseteq FiniteSubsetsOf(PlanetId)
  <2> SUFFICES ASSUME NEW S \in F PROVE S \in FiniteSubsetsOf(PlanetId)
    OBVIOUS
  <2>1. IsFiniteSet(PlanetId)
    BY FS_Interval, PlanetAssumption DEF PlanetId
  <2>2. S \in SUBSET PlanetId
    OBVIOUS
  <2>3. IsFiniteSet(S)
    BY <2>1, <2>2, FS_Subset
  <2> QED BY <2>2, <2>3 DEF FiniteSubsetsOf
<1>3. \E S \in F : \A U \in F : <<U, S>> \notin R
  <2> HIDE DEF R
  <2> QED BY <1>1, <1>2, WFMin
<1>4. PICK S \in F : \A U \in F : <<U, S>> \notin R
  BY <1>3
<1>5. \A U \in SUBSET S : U # S => U \notin F
  <2> SUFFICES ASSUME NEW U \in SUBSET S, U # S, U \in F PROVE FALSE
    OBVIOUS
  <2>1. <<U, S>> \in R
    BY DEF StrictSubsetOrdering
  <2> QED BY <1>4, <2>1
<1> QED BY <1>5

\* The function a fold recurses on, for the sum of w over the subsets of S.
First(S)      == CHOOSE x \in S : TRUE
Sums(f, w, S) ==
  f = [s \in SUBSET S |-> IF s = {} THEN 0 ELSE w[First(s)] + f[s \ {First(s)}]]
SumOf(w, S)   == FoldFunctionOnSet(+, 0, w, S)

\* A sum is the value of the chosen such function.
LEMMA SumUnfolded ==
  ASSUME NEW w, NEW S
  PROVE  SumOf(w, S) = (CHOOSE h : Sums(h, w, S))[S]
BY DEF SumOf, FoldFunctionOnSet, MapThenFoldSet, Sums, First

\* First takes a planet out of a set that has one.
LEMMA FirstIn ==
  ASSUME NEW S, S # {}
  PROVE  First(S) \in S
BY DEF First

\* Two such functions agree wherever their values do.
LEMMA SumsAgree ==
  ASSUME NEW S \in SUBSET PlanetId, NEW T \in SUBSET PlanetId,
         NEW w, NEW v, NEW f, NEW g, Sums(f, w, S), Sums(g, v, T),
         NEW U \in SUBSET (S \cap T), \A x \in U : w[x] = v[x]
  PROVE  f[U] = g[U]
<1> DEFINE F == {s \in SUBSET U : f[s] # g[s]}
<1> SUFFICES ASSUME F # {} PROVE FALSE
  OBVIOUS
<1>1. PICK s \in F : \A r \in SUBSET s : r # s => r \notin F
  <2>1. F \in SUBSET (SUBSET PlanetId)
    OBVIOUS
  <2> HIDE DEF F
  <2> QED BY <2>1, SmallestSet
<1>2. s \in SUBSET S /\ s \in SUBSET T /\ s \in SUBSET U
  OBVIOUS
<1>3. f[s] = IF s = {} THEN 0 ELSE w[First(s)] + f[s \ {First(s)}]
  BY <1>2 DEF Sums
<1>4. g[s] = IF s = {} THEN 0 ELSE v[First(s)] + g[s \ {First(s)}]
  BY <1>2 DEF Sums
<1>5. s # {}
  BY <1>3, <1>4
<1>6. First(s) \in s
  BY <1>5, FirstIn
<1>7. s \ {First(s)} \notin F
  BY <1>1, <1>6
<1>8. f[s \ {First(s)}] = g[s \ {First(s)}]
  BY <1>2, <1>7
<1> QED BY <1>2, <1>3, <1>4, <1>5, <1>6, <1>8

\* For every set of planets there is one.
LEMMA SumsExists ==
  ASSUME NEW w, NEW S0 \in SUBSET PlanetId
  PROVE  Sums(CHOOSE h : Sums(h, w, S0), w, S0)
<1> DEFINE F == {S \in SUBSET PlanetId : ~ \E f : Sums(f, w, S)}
<1> SUFFICES ASSUME F # {} PROVE FALSE
  OBVIOUS
<1>1. PICK S \in F : \A U \in SUBSET S : U # S => U \notin F
  BY SmallestSet
<1> DEFINE below(s) == (CHOOSE h : Sums(h, w, s))[s]
           whole    == [s \in SUBSET S |-> IF s # S THEN below(s)
                          ELSE IF s = {} THEN 0 ELSE w[First(s)] + below(s \ {First(s)})]
<1>2. ASSUME NEW s \in SUBSET S, s # S
      PROVE  Sums(CHOOSE h : Sums(h, w, s), w, s)
  BY <1>1, <1>2
<1>3. ASSUME NEW s \in SUBSET S
      PROVE  whole[s] = IF s = {} THEN 0 ELSE w[First(s)] + whole[s \ {First(s)}]
  <2>1. s # {} => First(s) \in s
    BY FirstIn
  <2> DEFINE r == s \ {First(s)}
  <2>2. CASE s = S
    BY <2>1, <2>2
  <2>3. CASE s # S /\ s = {}
    <3>1. PICK f : f = (CHOOSE h : Sums(h, w, s)) /\ Sums(f, w, s)
      BY <1>2, <2>3
    <3>2. f[s] = 0
      BY <3>1, <2>3 DEF Sums
    <3> QED BY <2>3, <3>1, <3>2
  <2>4. CASE s # S /\ s # {}
    <3>1. PICK f : f = (CHOOSE h : Sums(h, w, s)) /\ Sums(f, w, s)
      BY <1>2, <2>4
    <3>2. f[s] = w[First(s)] + f[r]
      BY <2>4, <3>1 DEF Sums
    <3>3. r \in SUBSET S /\ r # S /\ r \in SUBSET s
      BY <2>1, <2>4
    <3>4. PICK g : g = (CHOOSE h : Sums(h, w, r)) /\ Sums(g, w, r)
      BY <1>2, <3>3
    <3>5. f[r] = g[r]
      BY <3>1, <3>3, <3>4, SumsAgree
    <3>6. whole[s] = f[s] /\ whole[r] = g[r]
      BY <2>4, <3>1, <3>3, <3>4
    <3> QED BY <2>4, <3>2, <3>5, <3>6
  <2> QED BY <2>2, <2>3, <2>4
<1>4. Sums(whole, w, S)
  <2> SUFFICES whole = [s \in SUBSET S |-> IF s = {} THEN 0
                                         ELSE w[First(s)] + whole[s \ {First(s)}]]
    BY DEF Sums
  <2>1. whole = [s \in SUBSET S |-> whole[s]]
    OBVIOUS
  <2> HIDE DEF whole
  <2> QED BY <1>3, <2>1
<1> QED BY <1>4

\* What a sum is: nothing for no planets, else some planet's value and the rest's.
LEMMA SumEquation ==
  ASSUME NEW w, NEW S \in SUBSET PlanetId
  PROVE  SumOf(w, S) = IF S = {} THEN 0 ELSE w[First(S)] + SumOf(w, S \ {First(S)})
<1> DEFINE r == S \ {First(S)}
<1>1. PICK f : f = (CHOOSE h : Sums(h, w, S)) /\ Sums(f, w, S)
  BY SumsExists
<1>2. PICK g : g = (CHOOSE h : Sums(h, w, r)) /\ Sums(g, w, r)
  <2>1. r \in SUBSET PlanetId
    OBVIOUS
  <2> QED BY <2>1, SumsExists
<1>3. f[S] = IF S = {} THEN 0 ELSE w[First(S)] + f[r]
  BY <1>1 DEF Sums
<1>4. f[r] = g[r]
  BY <1>1, <1>2, SumsAgree
<1>5. SumOf(w, S) = f[S] /\ SumOf(w, r) = g[r]
  BY <1>1, <1>2, SumUnfolded
<1> QED BY <1>3, <1>4, <1>5

\* A sum of integers is one.
LEMMA SumType ==
  ASSUME NEW w \in [PlanetId -> Int], NEW S0 \in SUBSET PlanetId
  PROVE  SumOf(w, S0) \in Int
<1> DEFINE F == {S \in SUBSET PlanetId : SumOf(w, S) \notin Int}
<1> SUFFICES ASSUME F # {} PROVE FALSE
  OBVIOUS
<1>1. PICK S \in F : \A U \in SUBSET S : U # S => U \notin F
  BY SmallestSet
<1>2. S # {}
  <2>1. SumOf(w, S) \notin Int
    OBVIOUS
  <2>2. S = {} => SumOf(w, S) = 0
    BY SumEquation
  <2> QED BY <2>1, <2>2
<1>3. First(S) \in S
  BY <1>2, FirstIn
<1>4. S \ {First(S)} \notin F
  BY <1>1, <1>3
<1>5. SumOf(w, S \ {First(S)}) \in Int
  BY <1>4
<1>6. SumOf(w, S) = w[First(S)] + SumOf(w, S \ {First(S)})
  BY <1>2, SumEquation
<1> QED BY <1>3, <1>5, <1>6

\* Any planet may be taken out first.
LEMMA SumRemove ==
  ASSUME NEW w \in [PlanetId -> Int], NEW S0 \in SUBSET PlanetId, NEW x0 \in S0
  PROVE  SumOf(w, S0) = w[x0] + SumOf(w, S0 \ {x0})
<1> DEFINE F == {S \in SUBSET PlanetId : \E x \in S : SumOf(w, S) # w[x] + SumOf(w, S \ {x})}
<1> SUFFICES ASSUME F # {} PROVE FALSE
  OBVIOUS
<1>1. PICK S \in F : \A U \in SUBSET S : U # S => U \notin F
  BY SmallestSet
<1>2. PICK x \in S : SumOf(w, S) # w[x] + SumOf(w, S \ {x})
  OBVIOUS
<1> DEFINE c == First(S)
           r == (S \ {c}) \ {x}
<1>3. c \in S /\ SumOf(w, S) = w[c] + SumOf(w, S \ {c})
  BY FirstIn, SumEquation
<1> HIDE DEF c
<1>4. c # x
  BY <1>2, <1>3
<1>5. S \ {c} \notin F /\ S \ {x} \notin F
  BY <1>1, <1>3
<1>6. SumOf(w, S \ {c}) = w[x] + SumOf(w, r)
  BY <1>4, <1>5
<1>7. SumOf(w, S \ {x}) = w[c] + SumOf(w, (S \ {x}) \ {c})
  BY <1>3, <1>4, <1>5
<1>8. (S \ {x}) \ {c} = r
  OBVIOUS
<1>9. SumOf(w, r) \in Int /\ w[x] \in Int /\ w[c] \in Int
  BY <1>3, SumType
<1> QED BY <1>2, <1>3, <1>6, <1>7, <1>8, <1>9

\* Only the values of the planets in the set count.
LEMMA SumAgrees ==
  ASSUME NEW w, NEW v, NEW S \in SUBSET PlanetId, \A x \in S : w[x] = v[x]
  PROVE  SumOf(w, S) = SumOf(v, S)
<1>1. PICK f : f = (CHOOSE h : Sums(h, w, S)) /\ Sums(f, w, S)
  BY SumsExists
<1>2. PICK g : g = (CHOOSE h : Sums(h, v, S)) /\ Sums(g, v, S)
  BY SumsExists
<1>3. f[S] = g[S]
  <2>1. \A T \in SUBSET PlanetId : \A h : Sums(h, v, T) =>
          \A U \in SUBSET (S \cap T) : (\A x \in U : w[x] = v[x]) => f[U] = h[U]
    <3>1. Sums(f, w, S)
      BY <1>1
    <3> HIDE <1>1
    <3> QED BY <3>1, SumsAgree
  <2>2. S \in SUBSET (S \cap S)
    OBVIOUS
  <2> QED BY <1>2, <2>1, <2>2
<1> QED BY <1>1, <1>2, <1>3, SumUnfolded

-----------------------------------------------------------------------------
(* Weights and worths.                                                     *)

\* The number of the last kind for which a fact may fail: induction over kinds.
LEMMA SmallestKind ==
  ASSUME NEW F \in SUBSET Kind, F # {}
  PROVE  \E k \in F : \A j \in Kind : j < k => j \notin F
<1> DEFINE R == OpToRel(<, Nat)
<1>1. IsWellFoundedOn(R, Nat)
  BY NatLessThanWellFounded
<1>2. F \subseteq Nat
  BY ConfigAssumption DEF Kind
<1>3. \E k \in F : \A j \in F : <<j, k>> \notin R
  <2> HIDE DEF R
  <2> QED BY <1>1, <1>2, WFMin
<1>4. PICK k \in F : \A j \in F : <<j, k>> \notin R
  BY <1>3
<1>5. ASSUME NEW j \in Kind, j < k PROVE j \notin F
  <2> SUFFICES ASSUME j \in F PROVE FALSE
    OBVIOUS
  <2>1. j \in Nat /\ k \in Nat
    BY <1>2
  <2> QED BY <1>4, <1>5, <2>1 DEF OpToRel
<1> QED BY <1>5

\* A value of kinds that doubles, and gains more[k], with every kind.
Doubles(f, n, first, more) ==
  f = [k \in 1 .. n |-> IF k = 1 THEN first ELSE 2 * f[k - 1] + more[k]]

\* There is such a value, a number for every kind.
LEMMA DoublingExists ==
  ASSUME NEW first \in Nat, NEW more \in [Kind -> Nat]
  PROVE  \E f \in [Kind -> Nat] : Doubles(f, LastKind, first, more)
<1> DEFINE F == {n \in Kind : ~ \E f \in [1 .. n -> Nat] : Doubles(f, n, first, more)}
<1>1. F = {}
  <2> SUFFICES ASSUME F # {} PROVE FALSE
    OBVIOUS
  <2>1. PICK n \in F : \A j \in Kind : j < n => j \notin F
    <3>1. F \in SUBSET Kind
      OBVIOUS
    <3> HIDE DEF F
    <3> QED BY <3>1, SmallestKind
  <2>2. n \in Nat /\ n >= 1 /\ n \in Kind
    BY ConfigAssumption DEF Kind
  <2>3. CASE n = 1
    <3> DEFINE f == [k \in 1 .. 1 |-> first]
    <3>1. f \in [1 .. n -> Nat] /\ Doubles(f, n, first, more)
      BY <2>3 DEF Doubles
    <3> QED BY <3>1
  <2>4. CASE n # 1
    <3>1. n - 1 \in Kind /\ n - 1 < n
      BY <2>2, <2>4, ConfigAssumption DEF Kind
    <3>2. PICK g \in [1 .. n - 1 -> Nat] : Doubles(g, n - 1, first, more)
      BY <2>1, <3>1
    <3> DEFINE f == [k \in 1 .. n |-> IF k = n THEN 2 * g[n - 1] + more[n] ELSE g[k]]
    <3>3. f \in [1 .. n -> Nat]
      <4>1. \A k \in 1 .. n : k # n => k \in 1 .. n - 1
        BY <2>2
      <4>2. n - 1 \in 1 .. n - 1 /\ more[n] \in Nat
        BY <2>2, <3>1 DEF Kind
      <4>3. 2 * g[n - 1] + more[n] \in Nat
        BY <4>2
      <4> QED BY <4>1, <4>3
    <3>4. ASSUME NEW k \in 1 .. n
          PROVE  f[k] = IF k = 1 THEN first ELSE 2 * f[k - 1] + more[k]
      <4>1. CASE k = n
        BY <2>2, <2>4, <4>1
      <4>2. CASE k # n
        <5>1. k \in 1 .. n - 1
          BY <2>2, <4>2
        <5>2. g[k] = IF k = 1 THEN first ELSE 2 * g[k - 1] + more[k]
          BY <3>2, <5>1 DEF Doubles
        <5>3. f[k] = g[k] /\ (k # 1 => f[k - 1] = g[k - 1])
          BY <2>2, <5>1
        <5> QED BY <5>2, <5>3
      <4> QED BY <4>1, <4>2
    <3>5. f = [k \in 1 .. n |-> f[k]]
      OBVIOUS
    <3>6. Doubles(f, n, first, more)
      <4> HIDE DEF f
      <4> QED BY <3>4, <3>5 DEF Doubles
    <3> QED BY <3>3, <3>6
  <2> QED BY <2>3, <2>4
<1>2. LastKind \in Kind /\ Kind = 1 .. LastKind
  BY ConfigAssumption DEF Kind
<1> QED BY <1>1, <1>2

\* A value that is a number for the first kind, and for every kind after one for
\* which it is, is a number for every kind.
LEMMA NumberForEveryKind ==
  ASSUME NEW f, f = [k \in Kind |-> f[k]], f[1] \in Nat,
         \A k \in Kind : k # 1 /\ f[k - 1] \in Nat => f[k] \in Nat
  PROVE  f \in [Kind -> Nat]
<1> DEFINE F == {k \in Kind : f[k] \notin Nat}
<1>1. F = {}
  <2> SUFFICES ASSUME F # {} PROVE FALSE
    OBVIOUS
  <2>1. PICK k \in F : \A j \in Kind : j < k => j \notin F
    <3>1. F \in SUBSET Kind
      OBVIOUS
    <3> HIDE DEF F
    <3> QED BY <3>1, SmallestKind
  <2>2. k # 1
    OBVIOUS
  <2>3. k - 1 \in Kind /\ k - 1 < k
    BY <2>2, ConfigAssumption DEF Kind
  <2>4. f[k - 1] \in Nat
    BY <2>1, <2>3
  <2> QED BY <2>2, <2>4
<1> QED BY <1>1

\* Two planets weigh as much as one of the next kind.
LEMMA WeightDoubles ==
  /\ Weight \in [Kind -> Nat]
  /\ \A k \in Kind : k + 1 \in Kind => Weight[k + 1] = 2 * Weight[k]
<1> DEFINE none == [k \in Kind |-> 0]
           W(f) == f = [k \in Kind |-> IF k = 1 THEN 1 ELSE 2 * f[k - 1]]
<1>1. PICK f \in [Kind -> Nat] : Doubles(f, LastKind, 1, none)
  BY DoublingExists
<1>2. W(f)
  <2>1. Kind = 1 .. LastKind
    BY DEF Kind
  <2>2. \A k \in Kind : f[k] = IF k = 1 THEN 1 ELSE 2 * f[k - 1] + 0
    BY <1>1, <2>1 DEF Doubles
  <2>3. \A k \in Kind : k # 1 => k - 1 \in Kind
    BY ConfigAssumption DEF Kind
  <2>4. \A k \in Kind : f[k] = IF k = 1 THEN 1 ELSE 2 * f[k - 1]
    BY <2>2, <2>3
  <2> QED BY <2>4
<1>3. W(Weight)
  <2>1. Weight = CHOOSE g : W(g)
    BY DEF Weight
  <2> HIDE DEF W
  <2> QED BY <1>2, <2>1
<1>4. Weight = [k \in Kind |-> Weight[k]] /\ 1 \in Kind
  BY <1>3, ConfigAssumption DEF Kind
<1>5. \A k \in Kind : Weight[k] = IF k = 1 THEN 1 ELSE 2 * Weight[k - 1]
  BY <1>3
<1>6. Weight \in [Kind -> Nat]
  <2>1. \A k \in Kind : k # 1 /\ Weight[k - 1] \in Nat => Weight[k] \in Nat
    BY <1>5
  <2>2. Weight[1] \in Nat
    BY <1>4, <1>5
  <2> QED BY <1>4, <2>1, <2>2, NumberForEveryKind
<1>7. \A k \in Kind : k + 1 \in Kind => Weight[k + 1] = 2 * Weight[k]
  <2> TAKE k \in Kind
  <2>1. k \in Nat /\ k + 1 # 1 /\ (k + 1) - 1 = k
    BY ConfigAssumption DEF Kind
  <2> QED BY <1>5, <2>1
<1> QED BY <1>6, <1>7

\* A planet is worth what the two that made it were, and the points of the merge.
LEMMA WorthDoubles ==
  /\ Worth \in [Kind -> Nat]
  /\ \A k \in Kind : k + 1 \in Kind => Worth[k + 1] = 2 * Worth[k] + Points[k + 1]
<1> DEFINE W(f) == f = [k \in Kind |-> IF k = 1 THEN 0 ELSE 2 * f[k - 1] + Points[k]]
<1>1. PICK f \in [Kind -> Nat] : Doubles(f, LastKind, 0, Points)
  BY DoublingExists, PlanetAssumption
<1>2. W(f)
  BY <1>1 DEF Doubles, Kind
<1>3. W(Worth)
  <2>1. Worth = CHOOSE g : W(g)
    BY DEF Worth
  <2> HIDE DEF W
  <2> QED BY <1>2, <2>1
<1>4. Worth = [k \in Kind |-> Worth[k]] /\ 1 \in Kind
  BY <1>3, ConfigAssumption DEF Kind
<1>5. \A k \in Kind : Worth[k] = IF k = 1 THEN 0 ELSE 2 * Worth[k - 1] + Points[k]
  BY <1>3
<1>6. Worth \in [Kind -> Nat]
  <2>1. \A k \in Kind : k # 1 /\ Worth[k - 1] \in Nat => Worth[k] \in Nat
    BY <1>5, PlanetAssumption
  <2>2. Worth[1] \in Nat
    BY <1>4, <1>5
  <2> QED BY <1>4, <2>1, <2>2, NumberForEveryKind
<1>7. \A k \in Kind : k + 1 \in Kind => Worth[k + 1] = 2 * Worth[k] + Points[k + 1]
  <2> TAKE k \in Kind
  <2>1. k \in Nat /\ k + 1 # 1 /\ (k + 1) - 1 = k
    BY ConfigAssumption DEF Kind
  <2> QED BY <1>5, <2>1
<1> QED BY <1>6, <1>7

\* A planet joins a set.
LEMMA SumJoin ==
  ASSUME NEW w \in [PlanetId -> Int], NEW v \in [PlanetId -> Int],
         NEW S \in SUBSET PlanetId, NEW id \in PlanetId, id \notin S,
         \A x \in S : v[x] = w[x]
  PROVE  SumOf(v, S \cup {id}) = SumOf(w, S) + v[id]
<1>1. SumOf(v, S \cup {id}) = v[id] + SumOf(v, (S \cup {id}) \ {id})
  BY SumRemove
<1>2. (S \cup {id}) \ {id} = S
  OBVIOUS
<1>3. SumOf(v, S) = SumOf(w, S)
  BY SumAgrees
<1>4. SumOf(w, S) \in Int /\ v[id] \in Int
  BY SumType
<1>5. SumOf(v, S \cup {id}) = v[id] + SumOf(w, S)
  <2> HIDE DEF SumOf
  <2>1. SumOf(v, (S \cup {id}) \ {id}) = SumOf(v, S)
    BY <1>2
  <2> QED BY <1>1, <1>3, <2>1
<1> QED BY <1>4, <1>5

\* One planet replaces two of a set.
LEMMA SumReplace ==
  ASSUME NEW w \in [PlanetId -> Int], NEW v \in [PlanetId -> Int],
         NEW S \in SUBSET PlanetId, NEW id \in PlanetId, id \notin S,
         NEW p \in S, NEW q \in S, p # q, \A x \in S : v[x] = w[x]
  PROVE  SumOf(v, (S \ {p, q}) \cup {id}) = ((SumOf(w, S) - w[p]) - w[q]) + v[id]
<1> DEFINE rest == (S \ {p}) \ {q}
<1>1. SumOf(w, S) = w[p] + SumOf(w, S \ {p})
  BY SumRemove
<1>2. SumOf(w, S \ {p}) = w[q] + SumOf(w, rest)
  <2>1. S \ {p} \in SUBSET PlanetId /\ q \in S \ {p}
    OBVIOUS
  <2> QED BY <2>1, SumRemove
<1>3. SumOf(v, rest \cup {id}) = SumOf(w, rest) + v[id]
  <2>1. rest \in SUBSET PlanetId /\ id \notin rest /\ \A x \in rest : v[x] = w[x]
    OBVIOUS
  <2> QED BY <2>1, SumJoin
<1>4. rest = S \ {p, q}
  OBVIOUS
<1>5. SumOf(w, rest) \in Int /\ w[p] \in Int /\ w[q] \in Int /\ v[id] \in Int
  BY SumType
<1>6. SumOf(v, (S \ {p, q}) \cup {id}) = SumOf(w, rest) + v[id]
  BY <1>3, <1>4
<1> HIDE DEF rest
<1> QED BY <1>1, <1>2, <1>5, <1>6

-----------------------------------------------------------------------------
(* What a step does to the board.                                          *)

\* Until GameOver a life time is unset or used up, and a planet that does not exist
\* yet has not been made by a merge.
WholeLives   == over = "no" => \A p \in Live(planets) : planets[p].life \in {Forever, 0}
UnbornUnmade == \A p \in PlanetId : planets[p].status = "unborn" => parents[p] = {}

BoardInv == TypeOK /\ WholeLives /\ UnbornUnmade

\* The ways a step may change the board: not at all, by a planet that is dropped, by
\* a planet that replaces two of the kind before.
KindsKept == \A p \in Born : planets'[p].kind = planets[p].kind

BoardSame == Board' = Board /\ Dropped' = Dropped /\ score' = score

BoardDrop(id) ==
  /\ Board' = Board \cup {id}
  /\ Dropped' = Dropped \cup {id}
  /\ score' = score

BoardMerge(p, q, id) ==
  /\ p \in Board /\ q \in Board /\ p # q
  /\ planets[q].kind = planets[p].kind
  /\ planets[p].kind + 1 \in Kind
  /\ planets'[id].kind = planets[p].kind + 1
  /\ Board' = (Board \ {p, q}) \cup {id}
  /\ Dropped' = Dropped
  /\ score' = score + Points[planets[p].kind + 1]

BoardStep ==
  /\ KindsKept
  /\ \/ BoardSame
     \/ \E id \in PlanetId \ Born : BoardDrop(id)
     \/ \E id \in PlanetId \ Born, p \in PlanetId, q \in PlanetId : BoardMerge(p, q, id)

\* BoardInv holds at the start and every step preserves it, and until GameOver every
\* step is one of the three.
LEMMA BoardStepsAre ==
  /\ Init => BoardInv
  /\ BoardInv /\ [Next]_vars => BoardInv'
  /\ BoardInv /\ [Next]_vars /\ over' = "no" => over = "no" /\ BoardStep
<1>1. Init => BoardInv
  BY InitTyped DEF Init, BoardInv, WholeLives, UnbornUnmade, Live, Unborn
<1>2. ASSUME BoardInv, [Next]_vars
      PROVE  /\ BoardInv'
             /\ over' = "no" => over = "no" /\ BoardStep
  <2> USE <1>2
  <2>0. TypeOK /\ TypeOK' /\ WholeLives /\ UnbornUnmade
    BY NextTyped DEF BoardInv
  <2> DEFINE Goal == /\ WholeLives' /\ UnbornUnmade'
                     /\ over' = "no" => over = "no" /\ BoardStep
  <2> SUFFICES Goal
    BY <2>0 DEF BoardInv
  <2>1. ASSUME NEW k \in DropKinds, Drop(k) PROVE Goal
    <3> DEFINE id == Fresh(planets)
    <3>1. id \in PlanetId /\ planets[id].status = "unborn"
      BY <2>1, FreshNotBorn DEF Drop
    <3> HIDE DEF id
    <3>2. planets' = CreateFromConfig(planets, id, k)
      BY <2>1 DEF Drop, id
    <3>3. \A p \in PlanetId : p # id => planets'[p] = planets[p]
      BY <3>1, <3>2 DEF CreateFromConfig
    <3>4. /\ planets'[id].status = "live" /\ planets'[id].life = Forever
      BY <2>0, <3>1, <3>2 DEF CreateFromConfig, TypeOK
    <3>5. parents' = parents /\ score' = score /\ over' = over
      BY <2>1 DEF Drop
    <3>6. WholeLives' /\ UnbornUnmade'
      BY <2>0, <3>1, <3>3, <3>4, <3>5 DEF WholeLives, UnbornUnmade, Live
    <3>7. parents[id] = {} /\ Forever # 0
      BY <2>0, <3>1 DEF UnbornUnmade, Forever
    <3>8. BoardDrop(id)
      <4>1. Board' = Board \cup {id}
        BY <3>1, <3>3, <3>4, <3>7 DEF Board, Live
      <4>2. Dropped' = Dropped \cup {id}
        BY <3>1, <3>3, <3>4, <3>5, <3>7 DEF Dropped, Born
      <4> QED BY <3>5, <4>1, <4>2 DEF BoardDrop
    <3>9. id \in PlanetId \ Born /\ KindsKept
      BY <3>1, <3>3 DEF Born, KindsKept
    <3> QED BY <3>5, <3>6, <3>8, <3>9 DEF BoardStep
  <2>2. ASSUME NEW p \in PlanetId, NEW q \in PlanetId, Contact(p, q) PROVE Goal
    <3> DEFINE board == [planets |-> planets, score |-> score, parents |-> parents]
               id    == Fresh(planets)
    <3>1. PICK b : /\ b = board \/ (CanMerge(planets, p, q) /\ b = Merge(board, p, q) /\ EqualModelName(planets, p, q))
                   /\ planets' = b.planets /\ parents' = b.parents /\ score' = b.score
      BY <2>0, <2>2, ContactOnce DEF Contact, Live, TypeOK
    <3>2. over' = over /\ p # q /\ p \in Live(planets) /\ q \in Live(planets)
      BY <2>2 DEF Contact
    <3>3. CASE b = board
      BY <2>0, <3>1, <3>2, <3>3
      DEF WholeLives, UnbornUnmade, Live, BoardStep, BoardSame, KindsKept, Board, Dropped, Born
    <3>4. CASE CanMerge(planets, p, q) /\ b = Merge(board, p, q) /\ EqualModelName(planets, p, q)
      <4>1. id \in PlanetId /\ planets[id].status = "unborn"
        BY <2>2, FreshNotBorn DEF Contact
      <4>2. parents' = [parents EXCEPT ![id] = {p, q}]
        BY <3>1, <3>4 DEF Merge
      <4>3. planets' = CreateFromConfig(SetLifeTime(planets, {p, q}, 0), id, planets[p].kind + 1)
        BY <3>1, <3>4 DEF Merge
      <4>4. score' = score + Points[planets[p].kind + 1]
        BY <3>1, <3>4 DEF Merge
      <4> HIDE DEF id
      <4>5. \A r \in PlanetId : r # id =>
              planets'[r] = IF r \in {p, q} THEN [planets[r] EXCEPT !.life = 0] ELSE planets[r]
        BY <4>1, <4>3 DEF CreateFromConfig, SetLifeTime
      <4>6. /\ planets'[id].status = "live" /\ planets'[id].life = Forever
            /\ planets'[id].kind = planets[p].kind + 1
        BY <4>1, <4>3 DEF CreateFromConfig, SetLifeTime
      <4>7. \A r \in PlanetId : r # id =>
              /\ planets'[r].status = planets[r].status
              /\ planets'[r].kind = planets[r].kind
              /\ planets'[r].life = IF r \in {p, q} THEN 0 ELSE planets[r].life
        BY <2>0, <4>5 DEF TypeOK, PlanetState
      <4>8. \A r \in PlanetId : r # id => parents'[r] = parents[r]
        BY <2>0, <4>1, <4>2 DEF TypeOK
      <4>9. parents'[id] # {} /\ id # p /\ id # q
        BY <2>0, <3>2, <4>1, <4>2 DEF TypeOK, Live
      <4>10. WholeLives' /\ UnbornUnmade'
        BY <2>0, <3>2, <4>1, <4>6, <4>7, <4>8 DEF WholeLives, UnbornUnmade, Live
      <4>11. KindsKept /\ id \in PlanetId \ Born
        BY <4>1, <4>7 DEF KindsKept, Born
      <4>12. BoardMerge(p, q, id)
        <5>1. p \in Board /\ q \in Board
          BY <3>2, <3>4 DEF Board, CanMerge
        <5>2. planets[p].kind + 1 \in Kind /\ planets[q].kind = planets[p].kind
          BY <2>0, <3>4, ConfigAssumption DEF CanMerge, HasNext, EqualModelName, TypeOK, PlanetState, Kind
        <5>3. Board' = (Board \ {p, q}) \cup {id}
          BY <4>1, <4>6, <4>7, <4>9 DEF Board, Live, Forever
        <5>4. Dropped' = Dropped
          BY <4>1, <4>7, <4>8, <4>9 DEF Dropped, Born
        <5> QED BY <3>2, <4>4, <4>6, <5>1, <5>2, <5>3, <5>4 DEF BoardMerge
      <4> QED BY <3>2, <4>10, <4>11, <4>12 DEF BoardStep
    <3> QED BY <3>1, <3>3, <3>4
  <2>3. ASSUME parents' = parents, score' = score, over' = over,
               \A r \in PlanetId : /\ planets'[r].status = planets[r].status
                                   /\ planets'[r].kind = planets[r].kind
                                   /\ planets'[r].life = planets[r].life
        PROVE  Goal
    BY <2>0, <2>3
    DEF WholeLives, UnbornUnmade, Live, BoardStep, BoardSame, KindsKept, Board, Dropped, Born
  <2>4. ASSUME NEW p \in PlanetId, TopEnter(p) \/ TopLeave(p) PROVE Goal
    <3>1. \A r \in PlanetId : /\ planets'[r].status = planets[r].status
                              /\ planets'[r].kind = planets[r].kind
                              /\ planets'[r].life = planets[r].life
      BY <2>0, <2>4 DEF TopEnter, TopLeave, OnArenaTopCollide, OnArenaTopSeparate, TypeOK, PlanetState
    <3> QED BY <2>3, <2>4, <3>1 DEF TopEnter, TopLeave
  <2>5. ASSUME over' # "no", parents' = parents,
               \A r \in PlanetId : planets'[r].status = planets[r].status
        PROVE  Goal
    BY <2>0, <2>5 DEF WholeLives, UnbornUnmade
  <2>6. ASSUME NEW p \in PlanetId, NEW dt \in FrameTimes, UpdatePlanet(p, dt) PROVE Goal
    <3>1. CASE TimeUp(planets[p], dt)
      <4> DEFINE ended == GameOverTrigger(planets, Live(planets))
      <4>1. ended \in [PlanetId -> PlanetState]
        BY <2>0, SetLifeTimeType, PlanetAssumption, ConfigAssumption DEF GameOverTrigger, LifeTime, TypeOK
      <4>2. \A r \in PlanetId : ended[r].status = planets[r].status
        BY <2>0 DEF GameOverTrigger, SetLifeTime, TypeOK, PlanetState
      <4>3. planets' = UpdateTimer(ended, p, dt)
        BY <2>6, <3>1 DEF UpdatePlanet
      <4> HIDE DEF ended
      <4>4. \A r \in PlanetId : planets'[r].status = planets[r].status
        BY <4>1, <4>2, <4>3 DEF UpdateTimer, PlanetState
      <4> QED BY <2>0, <2>5, <2>6, <3>1, <4>4 DEF UpdatePlanet, EndGame, TypeOK
    <3>2. CASE ~TimeUp(planets[p], dt)
      <4>1. \A r \in PlanetId : /\ planets'[r].status = planets[r].status
                                /\ planets'[r].kind = planets[r].kind
                                /\ planets'[r].life = planets[r].life
        BY <2>0, <2>6, <3>2 DEF UpdatePlanet, UpdateTimer, TypeOK, PlanetState
      <4> QED BY <2>3, <2>6, <3>2, <4>1 DEF UpdatePlanet
    <3> QED BY <3>1, <3>2
  <2>7. CASE GameOverInput
    <3>1. \A r \in PlanetId : planets'[r].status = planets[r].status
      BY <2>0, <2>7 DEF GameOverInput, GameOverTrigger, SetLifeTime, TypeOK, PlanetState
    <3> QED BY <2>0, <2>5, <2>7, <3>1 DEF GameOverInput, EndGame, TypeOK
  <2>8. ASSUME NEW dt \in FrameTimes, DeleteExpired(dt) PROVE Goal
    <3>1. parents' = parents /\ score' = score /\ over' = over /\ planets' = Age(planets, dt)
      BY <2>8 DEF DeleteExpired
    <3>2. \A r \in PlanetId : /\ planets'[r].kind = planets[r].kind
                              /\ planets'[r].status = "unborn" <=> planets[r].status = "unborn"
      BY <2>0, <3>1 DEF Age, TypeOK, PlanetState
    <3>3. UnbornUnmade'
      BY <2>0, <3>1, <3>2 DEF UnbornUnmade
    <3>4. KindsKept /\ Dropped' = Dropped
      BY <3>1, <3>2 DEF KindsKept, Dropped, Born
    <3>5. CASE over = "no"
      <4>1. \A r \in PlanetId : planets[r].status = "live" =>
              IF planets[r].life = 0 THEN planets'[r].status = "gone" ELSE planets'[r] = planets[r]
        BY <2>0, <3>1, <3>5, ConfigAssumption
        DEF WholeLives, Live, Age, Expired, Forever, TypeOK, PlanetState
      <4>2. \A r \in PlanetId : planets[r].status # "live" => planets'[r] = planets[r]
        BY <3>1 DEF Age
      <4>3. Board' = Board
        BY <4>1, <4>2 DEF Board, Live
      <4>4. WholeLives'
        BY <2>0, <3>1, <4>1, <4>2 DEF WholeLives, Live
      <4> QED BY <3>1, <3>3, <3>4, <3>5, <4>3, <4>4 DEF BoardStep, BoardSame
    <3>6. CASE over # "no"
      BY <3>1, <3>3, <3>6 DEF WholeLives
    <3> QED BY <3>5, <3>6
  <2>9. CASE UNCHANGED vars
    BY <2>3, <2>9 DEF vars
  <2> QED BY <2>1, <2>2, <2>4, <2>6, <2>7, <2>8, <2>9 DEF Next
<1> QED BY <1>1, <1>2

-----------------------------------------------------------------------------
(* The balance of the board.                                               *)

\* A sum over the board or the dropped planets, in a state and in the next.
LEMMA TotalIsSum ==
  ASSUME NEW V
  PROVE  /\ \A S : Total(V, S) = SumOf(ByKind(V), S)
         /\ Total(V, Board)' = SumOf(ByKind(V)', Board')
         /\ Total(V, Dropped)' = SumOf(ByKind(V)', Dropped')
BY DEF Total, SumOf, FoldFunctionOnSet, MapThenFoldSet

\* By how much the value of the board exceeds that of the dropped planets.
Excess(V) == Total(V, Board) - Total(V, Dropped)

\* A step keeps the excess of a value, unless it is a merge that is scored: then the
\* excess grows by what the kind made is worth beyond the two it is made of.
LEMMA ExcessStep ==
  ASSUME NEW V \in [Kind -> Nat], NEW more \in [Kind -> Nat],
         \A k \in Kind : k + 1 \in Kind => V[k + 1] = 2 * V[k] + more[k + 1],
         TypeOK, TypeOK', BoardStep
  PROVE  /\ Excess(V) \in Int
         /\ \/ Excess(V)' = Excess(V) /\ score' = score
            \/ \E k \in Kind : /\ Excess(V)' = Excess(V) + more[k]
                               /\ score' = score + Points[k]
<1> DEFINE w == ByKind(V)
           v == ByKind(V)'
           all  == SumOf(w, Board)
           base == SumOf(w, Dropped)
<1>1. w \in [PlanetId -> Int] /\ v \in [PlanetId -> Int]
  BY DEF ByKind, TypeOK, PlanetState
<1>2. Board \in SUBSET Born /\ Dropped \in SUBSET Born /\ Born \in SUBSET PlanetId
  BY DEF Board, Dropped, Born, Live
<1>3. \A p \in Born : v[p] = w[p]
  BY <1>2 DEF BoardStep, KindsKept, ByKind
<1>4. \A p \in PlanetId : w[p] = V[planets[p].kind] /\ v[p] = V[planets'[p].kind]
  BY DEF ByKind
<1> HIDE DEF w, v
<1>5. all \in Int /\ base \in Int
  BY <1>1, <1>2, SumType
<1>6. Excess(V) = all - base /\ Excess(V)' = SumOf(v, Board') - SumOf(v, Dropped')
  BY TotalIsSum DEF Excess, w, v
<1>7. CASE BoardSame
  <2>1. SumOf(v, Board) = all /\ SumOf(v, Dropped) = base
    BY <1>2, <1>3, SumAgrees
  <2> QED BY <1>5, <1>6, <1>7, <2>1 DEF BoardSame
<1>8. ASSUME NEW id \in PlanetId \ Born, BoardDrop(id)
      PROVE  Excess(V)' = Excess(V) /\ score' = score
  <2>1. SumOf(v, Board \cup {id}) = all + v[id]
    BY <1>1, <1>2, <1>3, SumJoin
  <2>2. SumOf(v, Dropped \cup {id}) = base + v[id]
    BY <1>1, <1>2, <1>3, SumJoin
  <2>3. v[id] \in Int
    BY <1>1
  <2> HIDE DEF all, base
  <2> QED BY <1>5, <1>6, <1>8, <2>1, <2>2, <2>3 DEF BoardDrop
<1>9. ASSUME NEW id \in PlanetId \ Born, NEW p \in PlanetId, NEW q \in PlanetId,
             BoardMerge(p, q, id)
      PROVE  \E k \in Kind : /\ Excess(V)' = Excess(V) + more[k]
                             /\ score' = score + Points[k]
  <2> DEFINE k == planets[p].kind
  <2>1. p \in Board /\ q \in Board /\ p # q /\ k \in Kind /\ k + 1 \in Kind
    BY <1>9 DEF BoardMerge, TypeOK, PlanetState
  <2>2. SumOf(v, (Board \ {p, q}) \cup {id}) = ((all - w[p]) - w[q]) + v[id]
    BY <1>1, <1>2, <1>3, <2>1, SumReplace
  <2>3. SumOf(v, Dropped) = base
    BY <1>2, <1>3, SumAgrees
  <2>4. w[p] = V[k] /\ w[q] = V[k] /\ v[id] = 2 * V[k] + more[k + 1]
    BY <1>4, <1>9, <2>1 DEF BoardMerge
  <2>5. V[k] \in Int /\ more[k + 1] \in Int
    BY <2>1
  <2>6. SumOf(v, Board') - SumOf(v, Dropped') = (((all - w[p]) - w[q]) + v[id]) - base
    BY <1>9, <2>2, <2>3 DEF BoardMerge
  <2> HIDE DEF all, base, k
  <2>7. Excess(V)' = Excess(V) + more[k + 1]
    BY <1>5, <1>6, <2>4, <2>5, <2>6
  <2>8. score' = score + Points[k + 1]
    BY <1>9 DEF BoardMerge, k
  <2> QED BY <2>1, <2>7, <2>8
<1>10. Excess(V) \in Int
  BY <1>5, <1>6
<1> QED BY <1>7, <1>8, <1>9, <1>10 DEF BoardStep

\* The inductive invariant: the board as steps leave it, and both balances.
BalanceInv ==
  /\ BoardInv
  /\ over = "no" => Excess(Weight) = 0 /\ score = Excess(Worth)

\* BalanceInv holds at the start and every step preserves it.
LEMMA BalanceInvInductive ==
  /\ Init => BalanceInv
  /\ BalanceInv /\ [Next]_vars => BalanceInv'
<1>1. ASSUME Init PROVE BalanceInv
  <2>1. Board = {} /\ Dropped = {}
    BY <1>1 DEF Init, Board, Dropped, Born, Live, Unborn
  <2>2. \A V : Total(V, {}) = 0
    <3> TAKE V
    <3>1. SumOf(ByKind(V), {}) = 0
      BY SumEquation
    <3> QED BY <3>1, TotalIsSum
  <2>3. Excess(Weight) = 0 /\ Excess(Worth) = 0
    BY <2>1, <2>2 DEF Excess
  <2> QED BY <1>1, <2>3, BoardStepsAre DEF BalanceInv, Init
<1>2. ASSUME BalanceInv, [Next]_vars PROVE BalanceInv'
  <2>1. BoardInv /\ BoardInv' /\ TypeOK /\ TypeOK'
    BY <1>2, BoardStepsAre DEF BalanceInv, BoardInv
  <2> SUFFICES ASSUME over' = "no"
               PROVE  Excess(Weight)' = 0 /\ score' = Excess(Worth)'
    BY <2>1 DEF BalanceInv
  <2>2. over = "no" /\ BoardStep
    BY <1>2, <2>1, BoardStepsAre
  <2>3. Excess(Weight) = 0 /\ score = Excess(Worth)
    BY <1>2, <2>2 DEF BalanceInv
  <2>4. Excess(Weight)' = 0
    <3> DEFINE none == [k \in Kind |-> 0]
    <3>1. none \in [Kind -> Nat] /\ \A k \in Kind : none[k] = 0
      OBVIOUS
    <3>2. \A k \in Kind : k + 1 \in Kind => Weight[k + 1] = 2 * Weight[k] + none[k + 1]
      BY WeightDoubles
    <3> HIDE DEF none
    <3>3. \/ Excess(Weight)' = Excess(Weight)
          \/ \E k \in Kind : Excess(Weight)' = Excess(Weight) + none[k]
      BY <2>1, <2>2, <3>1, <3>2, WeightDoubles, ExcessStep
    <3> QED BY <2>3, <3>1, <3>3
  <2>5. score' = Excess(Worth)'
    BY <2>1, <2>2, <2>3, WorthDoubles, ExcessStep, PlanetAssumption
  <2> QED BY <2>4, <2>5
<1> QED BY <1>1, <1>2

\* What the invariant says of the two sums.
LEMMA BalanceImplies == BalanceInv => MassConserved /\ ScoreBalance
<1> SUFFICES ASSUME BalanceInv, over = "no"
             PROVE  Total(Weight, Board) = Total(Weight, Dropped) /\ ScoreBalance
  BY DEF MassConserved, ScoreBalance
<1>1. Total(Weight, Board) - Total(Weight, Dropped) = 0 /\ score = Excess(Worth)
  BY DEF BalanceInv, Excess
<1>2. Total(Weight, Board) \in Int /\ Total(Weight, Dropped) \in Int
  <2>1. ByKind(Weight) \in [PlanetId -> Int]
    BY WeightDoubles DEF ByKind, BalanceInv, BoardInv, TypeOK, PlanetState
  <2>2. Board \in SUBSET PlanetId /\ Dropped \in SUBSET PlanetId
    BY DEF Board, Live, Dropped, Born
  <2> QED BY <2>1, <2>2, SumType, TotalIsSum
<1> QED BY <1>1, <1>2 DEF ScoreBalance, Excess

\* Until GameOver the planets on the board weigh exactly what was dropped, for any
\* number of planets and kinds and any order of contacts, updates and deletions.
THEOREM NoPlanetIsLost == Spec => []MassConserved
<1>1. Spec => []BalanceInv
  BY BalanceInvInductive, PTL DEF Spec
<1> QED BY <1>1, BalanceImplies, PTL

\* Until GameOver the score is exactly what the merges that made the board are worth,
\* for every table of points.
THEOREM ScoreIsEarned == Spec => []ScoreBalance
<1>1. Spec => []BalanceInv
  BY BalanceInvInductive, PTL DEF Spec
<1> QED BY <1>1, BalanceImplies, PTL
=============================================================================
