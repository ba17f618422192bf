------------------------- MODULE MCEnforcementPaths -------------------------
(* The instances of the five smaller components for TLC, checked together: *)
(* a behaviour is one of one of them, so that their states add up and do   *)
(* not multiply.  Only the clock is common.                                *)
EXTENDS McpToolProxy, SanctionsScreening, ChatCompletions, ActionCovenants, WalletMonitor, TLC

CONSTANTS
  a1, a2, \* actors: calls, chats or scans, whichever the component has
  ShortTime \* bound: the clock of the components with two actors stops here

VARIABLE component \* the component a behaviour is of

(* SanctionsScreening: x asks for itself; y and z may own it, and each other. *)
MCNames == {"x", "y", "z", "d"}
MCEntities == {"x", "y", "z"}
MCScreenedAs == [n \in MCNames |-> IF n = "d" THEN "iban" ELSE "entity_name"]
NoStake == [h \in MCEntities |-> [e \in MCEntities |-> 0]]
Stake(yx, zx, zy, yz) ==
  [NoStake EXCEPT !["x"]["x"] = 20000, !["y"]["x"] = yx, !["z"]["x"] = zx,
                  !["z"]["y"] = zy, !["y"]["z"] = yz, !["x"]["y"] = 50000]
Graphs ==
  {Stake(yx, zx, zy, yz) :
     yx \in {0, 25000, 49600, 49996}, zx \in {0, 25000}, zy \in {0, 50000},
     yz \in {0, 60000}}
MCRequests ==
  {[candidates |-> c, blocked |-> b, owned |-> FALSE, root |-> "x", stake |-> NoStake,
    depth |-> 0, threshold |-> 50000] : c \in SUBSET {"x", "d"}, b \in {{}, {"x"}}}
  \cup
  {[candidates |-> {}, blocked |-> {}, owned |-> TRUE, root |-> "x", stake |-> g,
    depth |-> d, threshold |-> 50000] : g \in Graphs, d \in {0, 3}}

(* ChatCompletions: two sensitive tools. *)
MCReplies == {<<"wire">>, <<"pay", "pay">>, <<"pay", "note">>}

(* ActionCovenants: clocks up to further apart than the allowed skew. *)
MCOffsets == {-3, -1, 1, 3}

(* WalletMonitor: the chain forks at block 2. *)
MCSent == [f \in {"a", "b"} |-> [b \in 0..5 |-> IF f = "b" /\ b > 2 THEN b * b + 3 ELSE b * b]]

PathsInit ==
  /\ component \in {"mcp", "sanctions", "chat", "covenants", "wallet"}
  /\ ClockInit
  /\ McpInit /\ ScreeningInit /\ ChatInit /\ CovenantInit /\ MonitorInit

PathsNext ==
  \/ /\ component = "mcp" /\ McpNext /\ now' <= ShortTime
     /\ UNCHANGED <<component, screeningVars, chatVars, covenantVars, monitorVars>>
  \/ /\ component = "sanctions" /\ ScreeningNext
     /\ UNCHANGED <<component, now, mcpVars, chatVars, covenantVars, monitorVars>>
  \/ /\ component = "chat" /\ ChatNext
     /\ UNCHANGED <<component, now, mcpVars, screeningVars, covenantVars, monitorVars>>
  \/ /\ component = "covenants" /\ CovenantNext
     /\ UNCHANGED <<component, mcpVars, screeningVars, chatVars, monitorVars>>
  \/ /\ component = "wallet" /\ MonitorNext /\ now' <= ShortTime
     /\ UNCHANGED <<component, mcpVars, screeningVars, chatVars, covenantVars>>

PathsSpec ==
  PathsInit /\ [][PathsNext]_<<component, now, mcpVars, screeningVars, chatVars, covenantVars,
                               monitorVars>>

\* Exchanging the two calls, chats or scans changes nothing.
Symmetry == Permutations({a1, a2})
====
