----------------------------- MODULE MCDataDist -----------------------------
(***************************************************************************)
(* LLM DataDist for TLC: the caches of a node and the pulls from it, and   *)
(* the links of two clusters. Nothing of one part is read by the other, so *)
(* a behaviour is about one of them and leaves the other at its start.     *)
(***************************************************************************)
EXTENDS MCPullCache

CONSTANTS Halves,       \* what a behaviour may be about
          A, B, Modes, MaxLinkNum

VARIABLES about, deploy, ent, map, index, lock, comm, listening, engine, proc, todo, hs, late,
          result

-----------------------------------------------------------------------------
(* Scripts for CommLinks. A script gives each user's thread a cluster and  *)
(* its calls. A is the client of the daemon's links, B the server; B may   *)
(* drop its side, and may change its role. Modes is the set of ways to     *)
(* run: with the manager's service, or with remote caches accessed         *)
(* directly.                                                               *)

Call(op) == [op |-> op, force |-> FALSE]
Forced(op) == [op |-> op, force |-> TRUE]
Thread(c, calls) == [at |-> c, todo |-> calls]

Relink == <<Thread(A, <<Call("link"), Call("unlink"), Call("link")>>)>>
ForcedRelink == <<Thread(A, <<Call("link"), Forced("unlink"), Call("link")>>)>>
Switch == <<Thread(A, <<Call("link"), Call("link")>>), Thread(B, <<Call("switch"), Forced("switch")>>)>>
Ranks == <<Thread(A, <<Call("linkRanks"), Call("unlinkRanks")>>)>>
Both == <<Thread(A, <<Call("linkRanks"), Call("linkRanks"), Call("unlinkRanks")>>), Thread(B, <<Call("link")>>)>>
Pull(c) == <<Thread(c, <<Call("pull")>>)>>

Scripts == [
    service |-> {Relink \o Pull(A), ForcedRelink \o Pull(B), Switch, Both,
                 <<Thread(A, <<Call("link"), Call("pull")>>), Thread(B, <<Call("pull"), Forced("unlink")>>)>>,
                 Ranks \o <<Thread(A, <<Call("query"), Call("pull")>>)>>},
    direct |-> {Relink \o Pull(A), ForcedRelink, Ranks \o <<Thread(A, <<Call("query")>>)>>, Both,
                <<Thread(A, <<Call("linkHixl"), Call("unlinkHixl"), Call("linkHixl")>>)>>,
                <<Thread(A, <<Call("linkHixl"), Call("unlinkHixl")>>)>>}]

LinkSetups == UNION {{[service |-> m = "service", calls |-> x] : x \in Scripts[m]} : m \in Modes}

-----------------------------------------------------------------------------

Links == INSTANCE CommLinks WITH Clusters <- {A, B}, Setups <- LinkSetups, setup <- deploy

linkVars == <<deploy, ent, map, index, lock, comm, listening, engine, proc, todo, hs, late, result>>
all == <<about, vars, linkVars>>

MCInit ==
    /\ about \in Halves
    /\ Init /\ (about = "links" => setup = Books)
    /\ Links!Init
    /\ about = "caches" => deploy = CHOOSE s \in LinkSetups : TRUE

MCNext ==
    /\ UNCHANGED about
    /\ \/ about = "caches" /\ Next /\ UNCHANGED linkVars
       \/ about = "links" /\ Links!Next /\ UNCHANGED vars

MCSpec == MCInit /\ [][MCNext]_all

-----------------------------------------------------------------------------

\* A pull that succeeded has brought every byte asked for, from one cache that
\* went by the key or id of the request, unless that was removed meanwhile; and
\* every transfer plan lands, but for the end of a row in its last block.
PullsExact == about = "caches" => PulledExactly /\ PlansLand

\* A pull works on an entity that still has its communicator.
PullsOnLiveLinks == about = "links" => Links!PullsOnLiveLinks

\* The same, but for a communicator of a rank table that is being unlinked, and
\* for an entity that left the map where no service runs.
PullsOnKeptLinks == about = "links" => Links!PullsOnKeptLinks

=============================================================================
