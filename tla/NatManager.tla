----------------------------- MODULE NatManager -----------------------------
(***************************************************************************)
(* NatManager (crates/network/src/lib.rs): the managers of one process,    *)
(* and the iptables rules of the host, which outlive and are shared by     *)
(* them.  setup marks the manager it is called on as set up and returns a  *)
(* second manager that is set up for the same rules.  Every iptables       *)
(* command may be refused (no permission, the xtables lock, no binary),    *)
(* and nobody notices.                                                     *)
(*                                                                         *)
(* X_fault is X with a slip; no specification uses it.                     *)
(***************************************************************************)
EXTENDS Integers, FiniteSets

CONSTANTS
  Managers,  \* NatManager values that may be created
  Taps,      \* names of TAP interfaces
  Ifaces,    \* host interfaces a default route may use
  None,
  MaxRefused \* bound on the iptables commands that are refused

ASSUME NatAssumption ==
  None \notin Taps \cup Ifaces /\ IsFiniteSet(Managers) /\ MaxRefused \in Nat

VARIABLES
  mgr,     \* per manager: "unborn", "live" or "dropped"
  set,     \* per manager: is_setup
  tap,     \* per manager: tap_name
  rules,   \* how often each rule is in the host's tables
  route,   \* the interface of the default route
  refused, \* number of iptables commands that were refused
  via,     \* history, per manager that is set up: the interface setup used
  missed,  \* history, per rule: deletes that were due and did not happen
  whole    \* history: TAPs with a complete setup and all of its managers

history == <<via, missed, whole>>
vars == <<mgr, set, tap, rules, route, refused, history>>

Rules == ({"masquerade"} \X Ifaces) \union ({"forward_in", "forward_out"} \X Taps)

\* The three rules for TAP interface t when the default route uses i.
RulesOf(i, t) == {<<"masquerade", i>>, <<"forward_in", t>>, <<"forward_out", t>>}

\* The rules that manager m has to remove, and the managers that have to
\* remove rule r.
Due(m) == IF set[m] THEN RulesOf(via[m], tap[m]) ELSE {}
Owners(r) == {m \in Managers : r \in Due(m)}

Init ==
  /\ mgr = [m \in Managers |-> "unborn"]
  /\ set = [m \in Managers |-> FALSE]
  /\ tap = [m \in Managers |-> None]
  /\ rules = [r \in Rules |-> 0]
  /\ route \in Ifaces /\ refused = 0
  /\ via = [m \in Managers |-> None]
  /\ missed = [r \in Rules |-> 0]
  /\ whole = {}

\* Of the deletes due to m, those of the rules in skipped do not happen.
Miss(m, skipped) ==
  missed' = [r \in Rules |->
               missed[r] + (IF r \in Due(m) \cap skipped /\ rules[r] > 0
                              THEN 1 ELSE 0)]

\* iptables refuses the commands for the rules in S.
Refuse(S) ==
  /\ refused' = refused + Cardinality(S)
  /\ refused' <= MaxRefused

New(m) ==
  /\ mgr[m] = "unborn"
  /\ mgr' = [mgr EXCEPT ![m] = "live"]
  /\ UNCHANGED <<set, tap, rules, route, refused, history>>

\* host_interface, IP forwarding, one iptables -A and two -I, of which those in
\* added work; the manager n is the one that setup returns.  A manager that was
\* set up already forgets what it had to remove.
Setup(m, n, t) ==
  /\ mgr[m] = "live" /\ mgr[n] = "unborn"
  /\ mgr' = [mgr EXCEPT ![n] = "live"]
  /\ set' = [set EXCEPT ![m] = TRUE, ![n] = TRUE]
  /\ tap' = [tap EXCEPT ![m] = t, ![n] = t]
  /\ via' = [via EXCEPT ![m] = route, ![n] = route]
  /\ \E added \in SUBSET RulesOf(route, t) :
       /\ Refuse(RulesOf(route, t) \ added)
       /\ rules' = [r \in Rules |-> rules[r] + (IF r \in added THEN 1 ELSE 0)]
       /\ whole' = IF {"forward_in", "forward_out"} \X {t} \subseteq added
                     THEN whole \cup {t} ELSE whole
  /\ Miss(m, Rules)
  /\ UNCHANGED route

\* One of the FORWARD rules is forgotten.
Delete_fault(t, kept) ==
  rules' = [r \in Rules |->
              IF r \in RulesOf(route, t) \ (kept \cup {<<"forward_out", t>>})
                   /\ rules[r] > 0
                THEN rules[r] - 1 ELSE rules[r]]

\* The FORWARD rules are deleted by their position, whichever TAP they are of.
DeleteFirst_fault(t, kept) ==
  \E u \in Taps :
    rules' = [r \in Rules |->
                IF r \in RulesOf(route, u) \ kept /\ rules[r] > 0
                  THEN rules[r] - 1 ELSE rules[r]]

\* Three iptables -D, of which those of the rules in kept are refused; the others
\* remove one copy of their rule if there is one.
Delete(t, kept) ==
  rules' = [r \in Rules |->
              IF r \in RulesOf(route, t) \ kept /\ rules[r] > 0
                THEN rules[r] - 1 ELSE rules[r]]

\* The body of teardown: is_setup.swap(false), tap_name.take(), three -D for
\* the interface the default route uses now.
TearDownBody(m) ==
  /\ set' = [set EXCEPT ![m] = FALSE]
  /\ IF set[m] /\ tap[m] # None
       THEN /\ \E kept \in SUBSET {r \in RulesOf(route, tap[m]) : rules[r] > 0} :
                 /\ Refuse(kept)
                 /\ Delete(tap[m], kept)
                 /\ Miss(m, kept \cup (Rules \ RulesOf(route, tap[m])))
            /\ tap' = [tap EXCEPT ![m] = None]
            /\ via' = [via EXCEPT ![m] = None]
            /\ whole' = whole \ {tap[m]}
       ELSE UNCHANGED <<rules, tap, refused, history>>
  /\ UNCHANGED route

TearDown(m) ==
  /\ mgr[m] = "live"
  /\ TearDownBody(m)
  /\ UNCHANGED mgr

\* Drop calls teardown for a manager that is set up.
Drop(m) ==
  /\ mgr[m] = "live"
  /\ mgr' = [mgr EXCEPT ![m] = "dropped"]
  /\ TearDownBody(m)

\* The host's default route moves to another interface.
RouteChange ==
  /\ \E i \in Ifaces : route' = i
  /\ UNCHANGED <<mgr, set, tap, rules, refused, history>>

Next ==
  \/ \E m \in Managers : New(m) \/ TearDown(m) \/ Drop(m)
  \/ \E m, n \in Managers, t \in Taps : m # n /\ Setup(m, n, t)
  \/ RouteChange

Spec == Init /\ [][Next]_vars

-----------------------------------------------------------------------------
\* What teardown promises, to remove the rules that were added by setup: a copy
\* of a rule outlives the managers that answer for it only if both deletes that
\* were due for it have been missed, because iptables refused them, because the
\* default route had moved, so that teardown asked for another interface, or
\* because setup was called again on a manager that was set up.  One of the
\* three alone never leaves a rule behind, whoever is torn down or dropped
\* first and although all TAPs add and delete the same MASQUERADE rule.
NothingLeft ==
  \A r \in Rules : Owners(r) = {} => 2 * rules[r] <= missed[r]

\* A guest's FORWARD rules are not deleted by the managers of another TAP: when
\* the commands of a setup have worked they stay until a manager of that very
\* TAP is torn down or dropped.
ForwardsStay ==
  \A t \in whole : rules[<<"forward_in", t>>] > 0 /\ rules[<<"forward_out", t>>] > 0
=============================================================================
