---------------------------- MODULE GraphCommand ----------------------------
(***************************************************************************)
(* `graph attack-paths` (lovebird-cli/src/main.rs, 452-492): a document is *)
(* loaded (AssetGraph), and the graph that comes of it is searched         *)
(* (AttackPaths), unless the document was refused.  What it prints is left *)
(* out.                                                                    *)
(***************************************************************************)
EXTENDS AssetGraph, AttackPaths

gcVars == <<graphVars, vars>>

\* No graph to search yet.
NoGraph == [adj |-> <<>>, sensitivity |-> <<>>]
NoName  == "none"

GCInit ==
    /\ GraphInit
    /\ graph = NoGraph /\ from = NoName /\ to = NoName /\ limit = 0
    /\ pc = "load"
    /\ stack = <<>> /\ found = <<>> /\ result = <<>>

\* load_graph_file.
LoadFile == Load /\ UNCHANGED vars

\* find_attack_paths is called with what was loaded.
FindAttackPaths ==
    /\ pc = "load" /\ phase = "ready"
    /\ graph' = [adj |-> adj, sensitivity |-> [a \in DOMAIN nodes |-> nodes[a].sensitivity]]
    /\ from' \in Names /\ to' \in Names /\ limit' \in Limits
    /\ pc' = "start"
    /\ UNCHANGED <<graphVars, stack, found, result>>

Search == Next /\ UNCHANGED graphVars

GCNext == LoadFile \/ FindAttackPaths \/ Search

GCSpec == GCInit /\ [][GCNext]_gcVars
=============================================================================
