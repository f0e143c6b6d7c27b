---------------------------- MODULE NetworkProof ----------------------------
(***************************************************************************)
(* The host's side of the network: the NAT rules (NatManager) and the ADB  *)
(* server (AdbServer, at the end of the module).  The two do not interact. *)
(*                                                                         *)
(* NothingLeft and ForwardsStay of NatManager, for any number of managers, *)
(* TAP interfaces and host interfaces and any number of refused commands.  *)
(*                                                                         *)
(* NothingLeft speaks only of rules nobody answers for and is not          *)
(* inductive.  Balance says of every rule how many deletes are still to    *)
(* come: each copy has two, one of a manager that has to remove the rule   *)
(* or one that was missed.                                                 *)
(***************************************************************************)
EXTENDS NatManager, AdbServer, FiniteSetTheorems, TLAPS

Types ==
  /\ mgr \in [Managers -> {"unborn", "live", "dropped"}]
  /\ set \in [Managers -> BOOLEAN]
  /\ tap \in [Managers -> Taps \cup {None}]
  /\ rules \in [Rules -> Nat]
  /\ route \in Ifaces
  /\ via \in [Managers -> Ifaces \cup {None}]
  /\ missed \in [Rules -> Nat]
  /\ whole \in SUBSET Taps

\* A manager that is set up lives and knows its interface.
SetUpLives ==
  \A m \in Managers : set[m] => mgr[m] = "live" /\ tap[m] \in Taps /\ via[m] \in Ifaces

Balance == \A r \in Rules : 2 * rules[r] <= Cardinality(Owners(r)) + missed[r]

Shares == Types /\ SetUpLives /\ Balance /\ ForwardsStay

-----------------------------------------------------------------------------
\* The sets of managers are finite, in this state and in the next.
LEMMA OwnersFinite ==
  ASSUME NEW r
  PROVE  /\ IsFiniteSet(Owners(r)) /\ Cardinality(Owners(r)) \in Nat
         /\ IsFiniteSet(Owners(r)') /\ Cardinality(Owners(r)') \in Nat
<1>1. Owners(r) \in SUBSET Managers /\ Owners(r)' \in SUBSET Managers
  BY DEF Owners
<1>2. \A S \in SUBSET Managers : IsFiniteSet(S)
  BY NatAssumption, FS_Subset
<1>3. \A S \in SUBSET Managers : Cardinality(S) \in Nat
  BY <1>2, FS_CardinalityType
<1> QED BY <1>1, <1>2, <1>3

\* Two new elements add two to the cardinality, an old one takes one away.
LEMMA Count ==
  ASSUME NEW S, IsFiniteSet(S), NEW m, NEW n, m # n, n \notin S
  PROVE  /\ m \notin S => Cardinality(S \cup {m, n}) = Cardinality(S) + 2
         /\ m \in S => Cardinality(S) >= 1
         /\ m \in S => Cardinality(S \ {m}) = Cardinality(S) - 1
         /\ m \notin S => Cardinality(S \ {m}) = Cardinality(S)
<1>1. /\ IsFiniteSet(S \cup {n}) /\ Cardinality(S \cup {n}) = Cardinality(S) + 1
      /\ Cardinality(S) \in Nat
  BY FS_AddElement, FS_CardinalityType
<1>2. CASE m \notin S
  <2>1. Cardinality((S \cup {n}) \cup {m}) = Cardinality(S \cup {n}) + 1
    BY <1>1, <1>2, FS_AddElement
  <2>2. (S \cup {n}) \cup {m} = S \cup {m, n} /\ S \ {m} = S
    BY <1>2
  <2> QED BY <1>1, <1>2, <2>1, <2>2
<1>3. CASE m \in S
  <2>1. IsFiniteSet(S \ {m}) /\ Cardinality(S \ {m}) = Cardinality(S) - 1
    BY <1>3, FS_RemoveElement
  <2>2. Cardinality(S \ {m}) \in Nat
    BY <2>1, FS_CardinalityType
  <2>3. Cardinality(S) >= 1
    BY <1>1, <2>1, <2>2
  <2> QED BY <1>3, <2>1, <2>3
<1> QED BY <1>2, <1>3

\* What the rules are.
LEMMA RuleForms ==
  /\ \A t \in Taps, f \in {"forward_in", "forward_out"} : <<f, t>> \in Rules
  /\ \A i \in Ifaces, t \in Taps : RulesOf(i, t) \subseteq Rules
  /\ \A i \in Ifaces, t, u \in Taps, f \in {"forward_in", "forward_out"} :
       <<f, u>> \in RulesOf(i, t) <=> u = t
<1>1. \A t \in Taps, f \in {"forward_in", "forward_out"} : <<f, t>> \in Rules
  BY DEF Rules
<1>2. \A i \in Ifaces, t \in Taps : RulesOf(i, t) \subseteq Rules
  BY DEF Rules, RulesOf
<1>3. ASSUME NEW i \in Ifaces, NEW t \in Taps, NEW u \in Taps,
             NEW f \in {"forward_in", "forward_out"}
      PROVE  <<f, u>> \in RulesOf(i, t) <=> u = t
  BY DEF RulesOf
<1> QED BY <1>1, <1>2, <1>3

-----------------------------------------------------------------------------
\* setup adds at most one copy of each of its rules and two managers for it; a
\* manager that was set up before leaves a missed delete behind.
LEMMA SetupShares ==
  ASSUME Shares, NEW m \in Managers, NEW n \in Managers, NEW t \in Taps,
         m # n, Setup(m, n, t)
  PROVE  Shares'
<1> USE DEF Shares
<1>1. PICK added \in SUBSET RulesOf(route, t) :
        /\ rules' = [r \in Rules |-> rules[r] + (IF r \in added THEN 1 ELSE 0)]
        /\ whole' = IF {"forward_in", "forward_out"} \X {t} \subseteq added
                      THEN whole \cup {t} ELSE whole
  BY DEF Setup
<1>2. /\ mgr[m] = "live" /\ mgr[n] = "unborn"
      /\ mgr' = [mgr EXCEPT ![n] = "live"]
      /\ set' = [set EXCEPT ![m] = TRUE, ![n] = TRUE]
      /\ tap' = [tap EXCEPT ![m] = t, ![n] = t]
      /\ via' = [via EXCEPT ![m] = route, ![n] = route]
      /\ missed' = [r \in Rules |->
                      missed[r] + (IF r \in Due(m) \cap Rules /\ rules[r] > 0
                                     THEN 1 ELSE 0)]
      /\ route' = route
  BY DEF Setup, Miss
<1>3. Types'
  <2>1. rules' \in [Rules -> Nat] /\ missed' \in [Rules -> Nat] /\ whole' \in SUBSET Taps
    BY <1>1, <1>2 DEF Types
  <2> QED BY <1>2, <2>1 DEF Types
<1>4. SetUpLives'
  BY <1>2 DEF SetUpLives, Types
<1>5. ~set[n]
  BY <1>2 DEF SetUpLives, Types
<1>6. Balance'
  <2> SUFFICES ASSUME NEW r \in Rules
               PROVE  2 * rules'[r] <= Cardinality(Owners(r)') + missed'[r]
    BY DEF Balance
  <2>1. /\ rules[r] \in Nat /\ rules'[r] \in Nat /\ missed[r] \in Nat
        /\ 2 * rules[r] <= Cardinality(Owners(r)) + missed[r]
        /\ rules'[r] = rules[r] \/ (r \in RulesOf(route, t) /\ rules'[r] = rules[r] + 1)
        /\ missed'[r] = IF m \in Owners(r) /\ rules[r] > 0 THEN missed[r] + 1 ELSE missed[r]
    BY <1>1, <1>2, <1>3 DEF Balance, Types, Owners
  <2>2. IsFiniteSet(Owners(r)) /\ Cardinality(Owners(r)) \in Nat /\ n \notin Owners(r)
    BY <1>5, OwnersFinite DEF Owners, Due
  <2>3. CASE r \in RulesOf(route, t)
    <3>1. Owners(r)' = Owners(r) \cup {m, n}
      BY <1>2, <2>3 DEF Owners, Due, Types
    <3>2. CASE m \in Owners(r)
      <4>1. Cardinality(Owners(r)') = Cardinality(Owners(r)) + 1
        <5>1. Owners(r)' = Owners(r) \cup {n}
          BY <3>1, <3>2
        <5> QED BY <2>2, <5>1, FS_AddElement
      <4>2. Cardinality(Owners(r)) >= 1
        BY <2>2, <3>2, Count
      <4> QED BY <2>1, <2>2, <3>2, <4>1, <4>2
    <3>3. CASE m \notin Owners(r)
      <4>1. Cardinality(Owners(r)') = Cardinality(Owners(r)) + 2
        BY <2>2, <3>1, <3>3, Count
      <4> QED BY <2>1, <2>2, <3>3, <4>1
    <3> QED BY <3>2, <3>3
  <2>4. CASE r \notin RulesOf(route, t)
    <3>1. Owners(r)' = Owners(r) \ {m}
      BY <1>2, <1>5, <2>4 DEF Owners, Due, Types
    <3>2. Cardinality(Owners(r)') = IF m \in Owners(r) THEN Cardinality(Owners(r)) - 1
                                                       ELSE Cardinality(Owners(r))
      BY <2>2, <3>1, Count
    <3>3. Cardinality(Owners(r)') \in Nat
      BY OwnersFinite
    <3> QED BY <2>1, <2>2, <2>4, <3>2, <3>3
  <2> QED BY <2>3, <2>4
<1>7. ForwardsStay'
  <2> SUFFICES ASSUME NEW u \in whole', NEW f \in {"forward_in", "forward_out"}
               PROVE  rules'[<<f, u>>] > 0
    BY DEF ForwardsStay
  <2>1. u \in Taps /\ <<f, u>> \in Rules /\ rules[<<f, u>>] \in Nat
    BY <1>3, RuleForms DEF Types
  <2>2. CASE u \in whole
    <3>1. rules[<<f, u>>] > 0
      BY <2>2 DEF ForwardsStay
    <3> QED BY <1>1, <2>1, <3>1
  <2>3. CASE u \notin whole
    <3>1. u = t /\ {"forward_in", "forward_out"} \X {t} \subseteq added
      BY <1>1, <2>3
    <3>2. <<f, u>> \in added
      BY <3>1
    <3> QED BY <1>1, <2>1, <3>2
  <2> QED BY <2>2, <2>3
<1> QED BY <1>3, <1>4, <1>6, <1>7

\* A teardown takes one manager away from each of its rules: the rule loses a
\* copy, or had none, or the delete is missed.
LEMMA TearDownShares ==
  ASSUME Shares, NEW m \in Managers, TearDownBody(m),
         mgr' \in [Managers -> {"unborn", "live", "dropped"}],
         \A n \in Managers \ {m} : mgr'[n] = mgr[n]
  PROVE  Shares'
<1> USE DEF Shares
<1>1. CASE ~set[m]
  <2>1. set' = set /\ UNCHANGED <<rules, tap, route, via, missed, whole>>
    BY <1>1 DEF TearDownBody, Types, history
  <2>2. Types' /\ SetUpLives'
    BY <1>1, <2>1 DEF Types, SetUpLives
  <2>3. \A r \in Rules : Owners(r)' = Owners(r)
    BY <2>1 DEF Owners, Due
  <2> QED BY <2>1, <2>2, <2>3 DEF Balance, ForwardsStay
<1>2. CASE set[m]
  <2>1. PICK t \in Taps : t = tap[m] /\ t # None
    BY <1>2, NatAssumption DEF SetUpLives
  <2>2. PICK kept \in SUBSET {r \in RulesOf(route, t) : rules[r] > 0} :
          /\ rules' = [r \in Rules |->
                         IF r \in RulesOf(route, t) \ kept /\ rules[r] > 0
                           THEN rules[r] - 1 ELSE rules[r]]
          /\ missed' = [r \in Rules |->
                          missed[r] + (IF r \in Due(m) \cap (kept \cup (Rules \ RulesOf(route, t)))
                                            /\ rules[r] > 0
                                         THEN 1 ELSE 0)]
    BY <1>2, <2>1 DEF TearDownBody, Delete, Miss
  <2>3. /\ set' = [set EXCEPT ![m] = FALSE]
        /\ tap' = [tap EXCEPT ![m] = None]
        /\ via' = [via EXCEPT ![m] = None]
        /\ whole' = whole \ {t} /\ route' = route
    BY <1>2, <2>1 DEF TearDownBody
  <2>4. Types'
    <3>1. rules' \in [Rules -> Nat] /\ missed' \in [Rules -> Nat]
      BY <2>2 DEF Types
    <3> QED BY <2>3, <3>1 DEF Types
  <2>5. SetUpLives'
    BY <2>3 DEF SetUpLives, Types
  <2>6. Balance'
    <3> SUFFICES ASSUME NEW r \in Rules
                 PROVE  2 * rules'[r] <= Cardinality(Owners(r)') + missed'[r]
      BY DEF Balance
    <3>1. /\ rules[r] \in Nat /\ rules'[r] \in Nat /\ missed[r] \in Nat /\ missed'[r] \in Nat
          /\ 2 * rules[r] <= Cardinality(Owners(r)) + missed[r]
          /\ rules'[r] <= rules[r] /\ missed'[r] >= missed[r]
      BY <2>2, <2>4 DEF Balance, Types
    <3>2. /\ IsFiniteSet(Owners(r)) /\ Cardinality(Owners(r)) \in Nat
          /\ Cardinality(Owners(r)') \in Nat
      BY OwnersFinite
    <3>3. Owners(r)' = Owners(r) \ {m}
      BY <2>3 DEF Owners, Due, Types
    <3>4. CASE m \notin Owners(r)
      <4>1. Owners(r)' = Owners(r)
        BY <3>3, <3>4
      <4> QED BY <3>1, <3>2, <4>1
    <3>5. CASE m \in Owners(r)
      <4>1. Cardinality(Owners(r)') = Cardinality(Owners(r)) - 1
        BY <3>2, <3>3, <3>5, FS_RemoveElement
      <4>2. r \in Due(m)
        BY <3>5 DEF Owners
      <4>3. rules[r] = 0 \/ rules'[r] = rules[r] - 1 \/ missed'[r] = missed[r] + 1
        BY <2>2, <3>1, <4>2
      <4> QED BY <3>1, <3>2, <4>1, <4>3
    <3> QED BY <3>4, <3>5
  <2>7. ForwardsStay'
    <3> SUFFICES ASSUME NEW u \in whole', NEW f \in {"forward_in", "forward_out"}
                 PROVE  rules'[<<f, u>>] > 0
      BY DEF ForwardsStay
    <3>1. u \in Taps /\ u # t /\ u \in whole /\ <<f, u>> \in Rules
      BY <2>3, RuleForms DEF Types
    <3>2. rules[<<f, u>>] > 0
      BY <3>1 DEF ForwardsStay
    <3>3. <<f, u>> \notin RulesOf(route, t)
      BY <3>1, RuleForms DEF Types
    <3>4. rules'[<<f, u>>] = rules[<<f, u>>]
      BY <2>2, <3>1, <3>3
    <3> QED BY <3>2, <3>4
  <2> QED BY <2>4, <2>5, <2>6, <2>7
<1> QED BY <1>1, <1>2

\* Steps that touch neither managers that are set up nor rules.
LEMMA OtherShares ==
  ASSUME Shares, UNCHANGED <<set, tap, rules, history>>, route' \in Ifaces,
         mgr' \in [Managers -> {"unborn", "live", "dropped"}],
         \A m \in Managers : mgr[m] = "live" => mgr'[m] = "live"
  PROVE  Shares'
<1>1. Types' /\ SetUpLives'
  BY DEF Shares, Types, SetUpLives, history
<1>2. \A r \in Rules : Owners(r)' = Owners(r)
  BY DEF Owners, Due, history
<1> QED BY <1>1, <1>2 DEF Shares, Balance, ForwardsStay, history

\* Every step keeps the shares.
LEMMA StepShares == Shares /\ [Next]_vars => Shares'
<1> SUFFICES ASSUME Shares, [Next]_vars PROVE Shares'
  OBVIOUS
<1>1. ASSUME NEW m \in Managers, New(m) PROVE Shares'
  BY <1>1, OtherShares DEF New, Shares, Types
<1>2. ASSUME NEW m \in Managers, TearDown(m) PROVE Shares'
  BY <1>2, TearDownShares DEF TearDown, Shares, Types
<1>3. ASSUME NEW m \in Managers, Drop(m) PROVE Shares'
  <2>1. TearDownBody(m) /\ mgr' = [mgr EXCEPT ![m] = "dropped"]
    BY <1>3 DEF Drop
  <2>2. /\ mgr' \in [Managers -> {"unborn", "live", "dropped"}]
        /\ \A n \in Managers \ {m} : mgr'[n] = mgr[n]
    BY <2>1 DEF Shares, Types
  <2> QED BY <2>1, <2>2, TearDownShares
<1>4. ASSUME NEW m \in Managers, NEW n \in Managers, NEW t \in Taps, m # n, Setup(m, n, t)
      PROVE  Shares'
  BY <1>4, SetupShares
<1>5. CASE RouteChange
  BY <1>5, OtherShares DEF RouteChange, Shares, Types
<1>6. CASE UNCHANGED vars
  BY <1>6, OtherShares DEF vars, Shares, Types
<1> QED BY <1>1, <1>2, <1>3, <1>4, <1>5, <1>6 DEF Next

\* Each copy of a rule has two deletes to its account, due or missed.
THEOREM RulesBalance == Spec => []Shares
<1>1. Init => Shares
  <2> SUFFICES ASSUME Init PROVE Shares
    OBVIOUS
  <2>1. Types /\ SetUpLives /\ ForwardsStay
    BY DEF Init, Types, SetUpLives, ForwardsStay
  <2>2. \A r \in Rules : rules[r] = 0 /\ missed[r] = 0
    BY DEF Init
  <2> QED BY <2>1, <2>2, OwnersFinite DEF Shares, Balance
<1> QED BY <1>1, StepShares, PTL DEF Spec

\* A copy of a rule outlives the managers that answer for it only if both of
\* its deletes were missed, for any number of managers and interfaces, however
\* the route changes and whichever commands are refused.
THEOREM OneMissIsHarmless == Spec => []NothingLeft
<1>1. Shares => NothingLeft
  <2> SUFFICES ASSUME Shares, NEW r \in Rules, Owners(r) = {}
               PROVE  2 * rules[r] <= missed[r]
    BY DEF NothingLeft
  <2>1. Cardinality(Owners(r)) = 0
    BY FS_EmptySet
  <2>2. rules[r] \in Nat /\ missed[r] \in Nat
    BY DEF Shares, Types
  <2> QED BY <2>1, <2>2 DEF Shares, Balance
<1> QED BY <1>1, RulesBalance, PTL

\* The FORWARD rules of a TAP are not touched by the managers of another one.
THEOREM OthersKeepForwards == Spec => []ForwardsStay
<1>1. Shares => ForwardsStay
  BY DEF Shares
<1> QED BY <1>1, RulesBalance, PTL

-----------------------------------------------------------------------------
(***************************************************************************)
(* The ADB server, for any number of clients.                              *)
(*                                                                         *)
(* What the thread does while the server runs: it serves the connection of *)
(* one client, the one it reads from, and nothing is left of a connection  *)
(* that is closed.                                                         *)
(***************************************************************************)
ServesOne ==
  /\ TypeOK
  /\ OnlyStopEnds
  /\ thread = "read" => cur \in Clients
  /\ \A c \in Clients : conn[c] = "served" <=> thread = "read" /\ cur = c
  /\ \A c \in Clients : open[c] \/ msg[c] # "none" => conn[c] # "none"

LEMMA ServesOneInit == AdbInit => ServesOne
BY DEF AdbInit, ServesOne, TypeOK, OnlyStopEnds, Messages

\* start() and stop().
LEMMA OwnerServesOne ==
  ASSUME ServesOne, Start \/ StopFlag \/ StopConnect
  PROVE  ServesOne'
<1> USE DEF ServesOne, TypeOK, OnlyStopEnds
<1>1. CASE Start
  BY <1>1 DEF Start
<1>2. CASE StopFlag
  BY <1>2 DEF StopFlag
<1>3. CASE StopConnect
  <2>1. /\ owner' = "idle" /\ UNCHANGED <<running, thread, cur, open, msg>>
        /\ UNCHANGED conn \/ \E c \in Clients : /\ conn[c] = "none"
                                                /\ conn' = [conn EXCEPT ![c] = "queued"]
    BY <1>3 DEF StopConnect
  <2> QED BY <2>1
<1> QED BY <1>1, <1>2, <1>3

\* The clients.
LEMMA ClientServesOne ==
  ASSUME ServesOne, NEW c \in Clients, Connect(c) \/ Send(c) \/ Leave(c)
  PROVE  ServesOne'
<1> USE DEF ServesOne, TypeOK, OnlyStopEnds
<1>1. CASE Connect(c)
  BY <1>1 DEF Connect
<1>2. CASE Send(c)
  BY <1>2 DEF Send
<1>3. CASE Leave(c)
  BY <1>3 DEF Leave
<1> QED BY <1>1, <1>2, <1>3

\* The background thread.
LEMMA ThreadServesOne ==
  ASSUME ServesOne, Thread
  PROVE  ServesOne'
<1> USE DEF ServesOne, TypeOK, OnlyStopEnds
<1>1. CASE Test \/ AcceptError \/ Pause
  BY <1>1 DEF Test, AcceptError, Pause
<1>2. ASSUME NEW c \in Clients, Accept(c) PROVE ServesOne'
  BY <1>2 DEF Accept
<1>3. CASE ReadGo
  BY <1>3 DEF ReadGo
<1>4. CASE ReadEnd \/ ReadEof
  <2>1. /\ thread = "read" /\ cur \in Clients
        /\ Close("test") /\ UNCHANGED <<running, owner>>
    BY <1>4 DEF ReadEnd, ReadEof
  <2> QED BY <2>1 DEF Close
<1> QED BY <1>1, <1>2, <1>3, <1>4 DEF Thread

\* The ADB server serves one client at a time and closes what it has served.
THEOREM OneClientServed == AdbSpec => []ServesOne
<1>1. ServesOne /\ [AdbNext]_adbVars => ServesOne'
  <2> SUFFICES ASSUME ServesOne, [AdbNext]_adbVars PROVE ServesOne'
    OBVIOUS
  <2>1. CASE UNCHANGED adbVars
    BY <2>1 DEF adbVars, ServesOne, TypeOK, OnlyStopEnds
  <2> QED BY <2>1, OwnerServesOne, ClientServesOne, ThreadServesOne DEF AdbNext
<1> QED BY <1>1, ServesOneInit, PTL DEF AdbSpec

\* Whatever clients send, and whenever they leave, only stop() ends the server.
THEOREM OnlyOwnerEnds == AdbSpec => []OnlyStopEnds
<1>1. ServesOne => OnlyStopEnds
  BY DEF ServesOne
<1> QED BY <1>1, OneClientServed, PTL

(***************************************************************************)
(* The safe half of StopEnds: the wake-up that stop() sends is not lost.   *)
(* When stop() has returned and the thread is still in accept(), there is  *)
(* a connection for accept() to return: the one stop() has made, or, if    *)
(* its attempt has failed, any of those that fill the queue, for none of   *)
(* them is being served.                                                   *)
(***************************************************************************)
WakeupPending ==
  ~running /\ owner = "idle" /\ thread = "accept" => \E c \in Clients : conn[c] = "queued"

\* A server that has room for one connection never misses the call of stop().
THEOREM NoLostWakeup ==
  ASSUME Clients # {}
  PROVE  AdbSpec => []WakeupPending
<1>1. AdbInit => WakeupPending
  BY DEF AdbInit, WakeupPending
<1>2. ServesOne /\ WakeupPending /\ [AdbNext]_adbVars => WakeupPending'
  <2> SUFFICES ASSUME ServesOne, WakeupPending, [AdbNext]_adbVars,
                      ~running', owner' = "idle", thread' = "accept"
               PROVE  \E c \in Clients : conn'[c] = "queued"
    BY DEF WakeupPending
  <2> USE DEF ServesOne, TypeOK
  <2>1. CASE StopConnect
    <3>1. thread = "accept" /\ Listening
      BY <2>1 DEF StopConnect, Listening
    <3>2. CASE \E c \in Clients : conn[c] = "none"
      BY <2>1, <3>1, <3>2 DEF StopConnect
    <3>3. CASE \A c \in Clients : conn[c] # "none"
      <4>1. \A c \in Clients : conn[c] = "queued"
        BY <3>1, <3>3
      <4>2. UNCHANGED conn
        BY <2>1, <3>3 DEF StopConnect
      <4> QED BY <4>1, <4>2
    <3> QED BY <3>2, <3>3
  <2>2. CASE ~StopConnect
    <3>1. ~running /\ owner = "idle" /\ thread = "accept"
      BY <2>2 DEF AdbNext, Thread, adbVars, Start, StopFlag, Connect,
                  Send, Leave, Test, Accept, AcceptError, Pause,
                  ReadEnd, ReadGo, ReadEof, Close
    <3>2. PICK c \in Clients : conn[c] = "queued"
      BY <3>1 DEF WakeupPending
    <3>3. conn'[c] = "queued"
      BY <2>2, <3>1, <3>2
         DEF AdbNext, Thread, adbVars, Start, StopFlag, Connect,
             Send, Leave, Test, Accept, AcceptError, Pause,
             ReadEnd, ReadGo, ReadEof, Close
    <3> QED BY <3>3
  <2> QED BY <2>1, <2>2
<1> QED BY <1>1, <1>2, OneClientServed, PTL DEF AdbSpec
=============================================================================
