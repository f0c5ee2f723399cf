----------------------------- MODULE ScopeContract -----------------------------
(***************************************************************************)
(* What a client is promised of its scope (FR-MCP-002, FR-MCP-010 and      *)
(* FR-MCP-013 of docs/REQUIREMENTS.md): a transport sees nothing until a   *)
(* registration of it succeeds, then exactly one tree, the same one until  *)
(* the transport is released; and a tree only ever gets bigger.            *)
(***************************************************************************)
CONSTANTS Keys, Sessions, Unbound

VARIABLES
    tree,   \* sessions of each main session's tree
    scope   \* the tree a transport may read and change, or Unbound

Init ==
    /\ \E stored \in SUBSET Sessions :
          tree = [root \in Sessions |-> {root} \cap stored]
    /\ scope = [key \in Keys |-> Unbound]

\* A session joins one tree and stays in it; a tree begins with its main session.
Join(session, root) ==
    /\ \A other \in Sessions : session \notin tree[other]
    /\ session = root \/ root \in tree[root]
    /\ tree' = [tree EXCEPT ![root] = @ \cup {session}]
    /\ UNCHANGED scope

\* Only an unbound transport is bound, and only to a tree that exists.
Bind(key, root) ==
    /\ scope[key] = Unbound
    /\ root \in tree[root]
    /\ scope' = [scope EXCEPT ![key] = root]
    /\ UNCHANGED tree

\* A registration of a main session may do both at once.
JoinAndBind(key, root) ==
    /\ scope[key] = Unbound
    /\ \A other \in Sessions : root \notin tree[other]
    /\ tree' = [tree EXCEPT ![root] = {root}]
    /\ scope' = [scope EXCEPT ![key] = root]

Release(keys) ==
    /\ scope' = [key \in Keys |-> IF key \in keys THEN Unbound ELSE scope[key]]
    /\ UNCHANGED tree

Next ==
    \/ \E session, root \in Sessions : Join(session, root)
    \/ \E key \in Keys, root \in Sessions : Bind(key, root) \/ JoinAndBind(key, root)
    \/ \E keys \in SUBSET Keys : Release(keys)

Spec == Init /\ [][Next]_<<tree, scope>>

=============================================================================
