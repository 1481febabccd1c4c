---------------------------- MODULE EndpointMatch ----------------------------
(***************************************************************************)
(* EndpointMatcher: from the endpoints of two engines, the links to make   *)
(* between them and the handler that drives them.                          *)
(*                                                                         *)
(* An endpoint is [proto, place, comm, plane, dst, server, net]; an empty  *)
(* name is 0, planes are ordered. Links of UB are made in up to four       *)
(* directions at once (a group); every other protocol gives one link.      *)
(***************************************************************************)
EXTENDS Integers, Sequences, FiniteSets, SequencesExt

None == 0

First(seq, Test(_)) ==
    LET at == {i \in DOMAIN seq : Test(seq[i])}
    IN  IF at = {} THEN None ELSE CHOOSE i \in at : \A j \in at : i <= j

Rule(kind, handler, proto, place, type) ==
    [kind |-> kind, handler |-> handler, proto |-> proto, place |-> place, type |-> type]

kCrossInstanceRules ==
    <<Rule("single", "DIRECT", "uboe", "device", "UBOE"),
      Rule("single", "DIRECT", "ub_rtp", "device", "UBG"),
      Rule("single", "DIRECT", "roce", "device", "ROCE"),
      Rule("single", "DIRECT", "roce", "host", "ROCE")>>

kSameInstanceRules ==
    <<Rule("single", "DIRECT", "ubmem", "device", "UBMEM"),
      Rule("group", "UB", "ub_ctp", "any", "D2D"),
      Rule("single", "DIRECT", "hccs", "device", "HCCS"),
      Rule("single", "DIRECT", "uboe", "device", "UBOE"),
      Rule("single", "DIRECT", "ub_rtp", "device", "UBG"),
      Rule("single", "DIRECT", "roce", "device", "ROCE"),
      Rule("single", "DIRECT", "roce", "host", "ROCE")>>

kSameInstanceUbCtpDeviceOnlyRule == Rule("device only", "DIRECT", "ub_ctp", "device", "D2D")

EndpointLinkType(ep) ==
    IF ep.dst # None THEN "PEER2PEER" ELSE IF ep.plane # None THEN "PEER2NET" ELSE "OTHER"

LinkRank(ep, priority) ==
    CASE EndpointLinkType(ep) = priority -> 0
      [] EndpointLinkType(ep) # priority /\ priority = "PEER2NET"
            /\ EndpointLinkType(ep) = "OTHER" -> 2
      [] OTHER -> 1

ParseCommType(l, r) ==
    CASE l = "device" /\ r = "device" -> "D2D"
      [] l = "device" /\ r = "host"   -> "D2H"
      [] l = "host" /\ r = "host"     -> "H2H"
      [] OTHER                        -> "H2D"

IsUbProtocol(ep) == ep.proto = "ub_ctp"

AreUbCtpEndpointsAllDevice(eps) ==
    \A i \in DOMAIN eps : IsUbProtocol(eps[i]) => eps[i].place = "device"

KeyOf(ep) == <<ep.dst, ep.plane, ep.place>>

KeyBefore(a, b) ==
    \/ a[1] < b[1]
    \/ a[1] = b[1] /\ a[2] < b[2]
    \/ a[1] = b[1] /\ a[2] = b[2] /\ a[3] = "device" /\ b[3] = "host"

\* One remote endpoint for each key, the last one, in the order of the keys.
BuildMatchMap(eps) ==
    LET ub == {i \in DOMAIN eps : IsUbProtocol(eps[i])}
        last == {i \in ub : \A j \in ub : KeyOf(eps[j]) = KeyOf(eps[i]) => j <= i}
        at == SetToSortSeq(last, LAMBDA i, j : KeyBefore(KeyOf(eps[i]), KeyOf(eps[j])))
    IN  [n \in DOMAIN at |-> eps[at[n]]]

\* MatchKey::Matches; a remote endpoint without dst_eid takes every peer.
Matches(k, dst, plane, place) ==
    /\ k[1] = None \/ dst = None \/ k[1] = dst
    /\ k[2] = plane
    /\ k[3] = place

FindMatchingKey(peers, dst, plane, place) ==
    First(peers, LAMBDA p : Matches(KeyOf(p), dst, plane, place))

Pair(l, r, type) == [local |-> l, remote |-> r, type |-> type]

TryMatchSingle(local, remote, rule) ==
    LET is(ep) == ep.proto = rule.proto /\ ep.place = rule.place
        l == First(local, is)
        r == First(remote, is)
    IN  IF l # None /\ r # None THEN <<Pair(local[l], remote[r], rule.type)>> ELSE <<>>

\* The device links in the order of the preferred link type, then of planes.
MatchD2D(local, peers, priority) ==
    LET at == {i \in DOMAIN local : IsUbProtocol(local[i]) /\ local[i].place = "device"}
        before(i, j) ==
            LET a == LinkRank(local[i], priority) b == LinkRank(local[j], priority)
            IN  \/ a < b
                \/ a = b /\ local[i].plane < local[j].plane
                \/ a = b /\ local[i].plane = local[j].plane /\ i < j
        candidates == SetToSortSeq(at, before)
        peer(i) == FindMatchingKey(peers, local[i].comm, local[i].plane, "device")
        n == First(candidates, LAMBDA i : peer(i) # None)
    IN  IF n = None THEN <<>>
        ELSE <<Pair(local[candidates[n]], peers[peer(candidates[n])], "D2D")>>

Has(pairs, type) == \E i \in DOMAIN pairs : pairs[i].type = type

\* Two engines of one server: host to host over the server's own endpoint.
TryMatchH2rHLoopback(l, remote, pairs) ==
    LET r == First(remote, LAMBDA p : IsUbProtocol(p) /\ p.place = "host"
                                        /\ p.plane = l.plane /\ p.server = l.server)
    IN  IF IsUbProtocol(l) /\ l.place = "host" /\ l.server # None /\ ~Has(pairs, "H2H") /\ r # None
        THEN Append(pairs, Pair([l EXCEPT !.comm = remote[r].comm], remote[r], "H2H"))
        ELSE pairs

\* A local endpoint gives the directions it has a peer for and that are not
\* served yet. Device to device is not tried again: MatchD2D has settled it.
TryMatchUb(l, peers, pairs) ==
    FoldLeft(LAMBDA ps, place :
                LET r == FindMatchingKey(peers, l.comm, l.plane, place)
                    type == ParseCommType(l.place, place)
                IN  IF r # None /\ type # "D2D" /\ ~Has(ps, type)
                    THEN Append(ps, Pair(l, peers[r], type))
                    ELSE ps,
             pairs, IF IsUbProtocol(l) THEN <<"device", "host">> ELSE <<>>)

\* At most four links; the local endpoints with a fixed peer come first.
kMaxUbCsClientNum == 4

TryMatchGroup(local, remote, priority) ==
    LET peers == BuildMatchMap(remote)
        before(i, j) ==
            LET a == local[i] b == local[j]
            IN  IF (a.dst = None) # (b.dst = None) THEN a.dst # None
                ELSE a.plane < b.plane \/ (a.plane = b.plane /\ i < j)
        sorted == SetToSortSeq(DOMAIN local, before)
        full(ps) == Len(ps) = kMaxUbCsClientNum
    IN  FoldLeft(LAMBDA ps, i :
                    IF full(ps) THEN ps
                    ELSE LET h == TryMatchH2rHLoopback(local[i], remote, ps)
                         IN  IF full(h) THEN h ELSE TryMatchUb(local[i], peers, h),
                 MatchD2D(local, peers, priority), sorted)

\* Only if the group would be one device link.
TryMatchUbCtpD2DOnlyByGroup(local, remote, priority) ==
    LET g == TryMatchGroup(local, remote, priority)
    IN  IF Len(g) = 1 /\ g[1].type = "D2D" THEN g ELSE <<>>

TryMatchRule(local, remote, priority, rule) ==
    CASE rule.kind = "group" -> TryMatchGroup(local, remote, priority)
      [] rule.kind = "device only" -> TryMatchUbCtpD2DOnlyByGroup(local, remote, priority)
      [] rule.kind = "single" -> TryMatchSingle(local, remote, rule)

IsCrossInstance(local, remote) == local[1].net # remote[1].net

\* The rules in the order they are tried.
RulesFor(local, remote) ==
    IF IsCrossInstance(local, remote) THEN kCrossInstanceRules
    ELSE IF AreUbCtpEndpointsAllDevice(local) /\ AreUbCtpEndpointsAllDevice(remote)
         THEN <<kSameInstanceUbCtpDeviceOnlyRule>> \o kSameInstanceRules
         ELSE kSameInstanceRules

\* MatchEndpoints: the pairs of the first rule that gives any, and its handler.
MatchEndpoints(local, remote, priority) ==
    LET rules == RulesFor(local, remote)
        results == [i \in DOMAIN rules |-> TryMatchRule(local, remote, priority, rules[i])]
        n == First(results, LAMBDA p : p # <<>>)
    IN  IF n = None THEN [handler |-> "NONE", pairs |-> <<>>]
        ELSE [handler |-> rules[n].handler, pairs |-> results[n]]

-----------------------------------------------------------------------------
(* What the result has to be, stated without the order of the search.      *)

\* Two UB endpoints can be linked: the same plane, and the remote one is not
\* fixed to another peer. Host endpoints of one server can always be linked.
Loopback(l, r) == l.place = "host" /\ r.place = "host" /\ l.server # None /\ l.server = r.server

Linkable(l, r) ==
    /\ IsUbProtocol(l) /\ IsUbProtocol(r) /\ l.plane = r.plane
    /\ r.dst = None \/ l.comm = None \/ r.dst = l.comm \/ Loopback(l, r)

\* What the local endpoint is fixed to is not asked: it is linked to another
\* peer as well, if that one is fixed to nobody. Where the settings are mutual
\* (a local endpoint some remote one is fixed to is fixed to that one), no other
\* link leaves the peer an end is fixed to.
Mutual(local, remote) ==
    \A i \in DOMAIN local, j \in DOMAIN remote : remote[j].dst = local[i].comm => local[i].dst = remote[j].comm

Kept(l, r) == l.dst = None \/ l.dst = r.comm \/ r.dst = None \/ Loopback(l, r)

DirectionsOf(local, remote) ==
    {ParseCommType(local[i].place, remote[j].place) :
        <<i, j>> \in {x \in (DOMAIN local) \X (DOMAIN remote) : Linkable(local[x[1]], remote[x[2]])}}

\* A UB group has one link for each direction that some pair of endpoints can
\* serve, no more, between endpoints of the right placement that can be linked,
\* and its device link is of the preferred kind if one of that kind exists.
\* A single link joins two endpoints of its protocol and placement. Without a
\* result no rule applies. (c.found is what MatchEndpoints makes of the case.)
MatchRight(c) ==
    LET m == c.found
        types == {m.pairs[i].type : i \in DOMAIN m.pairs}
        both(proto, place) ==
            /\ \E i \in DOMAIN c.local : c.local[i].proto = proto /\ c.local[i].place = place
            /\ \E i \in DOMAIN c.remote : c.remote[i].proto = proto /\ c.remote[i].place = place
        dirs == DirectionsOf(c.local, c.remote)
        cross == IsCrossInstance(c.local, c.remote)
    IN  /\ Cardinality(types) = Len(m.pairs)
        /\ m.handler = "UB" =>
            /\ ~cross /\ ~both("ubmem", "device")
            /\ types = dirs
            /\ \A i \in DOMAIN m.pairs :
                /\ Linkable(m.pairs[i].local, m.pairs[i].remote)
                /\ Mutual(c.local, c.remote) => Kept(m.pairs[i].local, m.pairs[i].remote)
                /\ m.pairs[i].type = ParseCommType(m.pairs[i].local.place, m.pairs[i].remote.place)
        /\ m.handler = "DIRECT" =>
            /\ Len(m.pairs) = 1
            /\ m.pairs[1].local.proto = m.pairs[1].remote.proto
            /\ m.pairs[1].local.place = m.pairs[1].remote.place
            /\ m.pairs[1].type = "D2D" => dirs = {"D2D"}
        /\ (~cross /\ dirs # {} /\ ~both("ubmem", "device")) =>
            \A i \in DOMAIN m.pairs : IsUbProtocol(m.pairs[i].local)
        /\ \A i \in DOMAIN m.pairs : m.pairs[i].type = "D2D" =>
            \A a \in DOMAIN c.local, b \in DOMAIN c.remote :
                (c.local[a].place = "device" /\ c.remote[b].place = "device"
                    /\ Linkable(c.local[a], c.remote[b]))
                => LinkRank(m.pairs[i].local, c.priority) <= LinkRank(c.local[a], c.priority)
        /\ (m.handler = "NONE") =
            ((cross \/ dirs = {}) /\ \A r \in ToSet(RulesFor(c.local, c.remote)) :
                r.kind = "single" => ~both(r.proto, r.place))
=============================================================================
