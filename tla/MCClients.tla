------------------------------ MODULE MCClients ------------------------------
(* What several clients do at once, three components, each alone: their calls *)
(* on one thread, the view they fold of the envelopes they are sent, the      *)
(* settings they write.  The components share no state, so a behaviour of     *)
(* this module is one of the component named "part"; the others stay at their *)
(* initial states.  The calls on a thread may be renamed within each kind.    *)
EXTENDS ThreadLifecycle, ClientView, Settings, TLC

VARIABLE part

Parts == {"thread", "view", "settings"}
allVars == <<vars, cvVars, stVars, part>>

PartsInit == part \in Parts /\ Init /\ CvInit /\ StInit

PartsNext ==
  /\ UNCHANGED part
  /\ \/ part = "thread"   /\ Next   /\ UNCHANGED <<cvVars, stVars>>
     \/ part = "view"     /\ CvNext /\ UNCHANGED <<vars, stVars>>
     \/ part = "settings" /\ StNext /\ UNCHANGED <<vars, cvVars>>

PartsSpec == PartsInit /\ [][PartsNext]_allVars

Symmetry == Permutations(Turns) \cup Permutations(Answers) \cup Permutations(Cancels)
=============================================================================
