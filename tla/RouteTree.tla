------------------------------- MODULE RouteTree -------------------------------
(***************************************************************************)
(* The paths of routes and requests (internal/http/path.ts) and the tree   *)
(* that resolves a request to one route while a router holds nothing but   *)
(* routes (internal/http/route-tree.ts).                                   *)
(*                                                                         *)
(* A path is the sequence of what stands between its slashes, Empty where  *)
(* nothing does: "/" is <<Empty>>, "/a" is <<"a">>, "/a/" is <<"a",        *)
(* Empty>>.  A pattern is the sequence of its segments after               *)
(* normalizePath, each a record [kind, name] of kind "static", "param"     *)
(* (":id") or "wild" ("*" or "*rest"); "/" is <<>>.  Of the parameters of  *)
(* a match only their keys are kept.                                       *)
(***************************************************************************)
EXTENDS Naturals, FiniteSets, Sequences, SequencesExt

CONSTANTS
    Names,      \* what stands between slashes, and the names of keys
    Empty       \* what stands between two slashes that touch

ASSUME NamesAssumption == {Empty, "wildcard"} \subseteq Names

Segment == [kind : {"static", "param", "wild"}, name : Names]

Root == <<Empty>>

\* A pattern ends at its first wildcard: compilePath and add() both break there.
Wild(pattern) == {i \in DOMAIN pattern : pattern[i].kind = "wild"}
Cut(pattern) ==
    IF Wild(pattern) = {} THEN pattern
    ELSE SubSeq(pattern, 1, CHOOSE i \in Wild(pattern) : \A j \in Wild(pattern) : i <= j)

HasWild(pattern) == pattern # <<>> /\ Last(pattern).kind = "wild"

(***************************************************************************)
(* The regular expressions of compilePath                                  *)
(***************************************************************************)
\* One segment of a path against one of a pattern: ([^/]+) is never empty.
SegmentMatches(segment, part) ==
    \/ segment.kind = "static" /\ segment.name = part
    \/ segment.kind = "param" /\ part # Empty

Fits(pattern, path) ==
    /\ Len(pattern) <= Len(path)
    /\ \A i \in DOMAIN pattern : pattern[i].kind # "wild" => SegmentMatches(pattern[i], path[i])

\* matchPath with end: the whole path, a trailing slash apart; (.*) takes what is left.
Matches(pattern, path) ==
    LET p == Cut(pattern) IN
    IF p = <<>> THEN path = Root
    ELSE /\ Fits(p, path)
         /\ \/ HasWild(p)
            \/ Len(p) = Len(path)
            \/ Len(p) + 1 = Len(path) /\ Last(path) = Empty

\* matchPath without end, as use() compiles: a prefix that stops at a slash.
MatchesPrefix(pattern, path) == Fits(Cut(pattern), path)

\* "/*" and "/*rest" have expressions of their own, whose one key is "wildcard".
Everything(pattern) ==
    LET p == Cut(pattern) IN
    Len(p) = 1 /\ HasWild(p) /\ p[1].name \in {"wildcard", "rest"}

\* The keys a match defines: the expression of a mounted "/*" captures nothing.
NamedKeys(pattern) == {pattern[i].name : i \in {j \in DOMAIN Cut(pattern) : pattern[j].kind # "static"}}
Keys(pattern) == IF Everything(pattern) THEN {"wildcard"} ELSE NamedKeys(pattern)
PrefixKeys(pattern) == IF Everything(pattern) THEN {} ELSE NamedKeys(pattern)

\* consumePath: what a mounted router sees of the path.
Consumed(pattern, path) ==
    LET p == Cut(pattern)
        left == IF Everything(p) THEN path ELSE IF HasWild(p) THEN <<>> ELSE SubSeq(path, Len(p) + 1, Len(path)) IN
    IF left = <<>> THEN Root ELSE left

\* isMethodMatch of the layers.
MethodMatches(registered, method) ==
    \/ registered \in {"ALL", method}
    \/ method = "HEAD" /\ registered = "GET"

(***************************************************************************)
(* The tree.  A node is named by its shape, the pattern without the names  *)
(* of its keys; routes holds the entry of every node and method, keys the  *)
(* name under which each parameter or wildcard node was first created.     *)
(* The exact-path maps hold the entries of the shapes without parameters,  *)
(* under the same rule of methods, and those shapes come first anyway.     *)
(***************************************************************************)
NoRoutes == [routes |-> <<>>, keys |-> <<>>]

Shape(pattern) ==
    [i \in DOMAIN Cut(pattern) |->
        IF pattern[i].kind = "static" THEN pattern[i] ELSE [kind |-> pattern[i].kind, name |-> Empty]]

Nodes(pattern) ==
    {i \in DOMAIN Cut(pattern) : pattern[i].kind # "static"}

\* RouteTree.add: the handlers of a second route with the same shape and method
\* are appended to the first's entry, and a node keeps its first key.
AddToTree(tree, method, pattern, handler) ==
    LET at == <<Shape(pattern), method>>
        known == at \in DOMAIN tree.routes
        entry == [path |-> IF known THEN tree.routes[at].path ELSE pattern,
                  handlers |-> IF known THEN Append(tree.routes[at].handlers, handler)
                               ELSE <<handler>>]
        named == {SubSeq(Shape(pattern), 1, i) : i \in Nodes(pattern)} IN
    [routes |-> [a \in DOMAIN tree.routes \cup {at} |-> IF a = at THEN entry ELSE tree.routes[a]],
     keys |-> [s \in DOMAIN tree.keys \cup named |->
                  IF s \in DOMAIN tree.keys THEN tree.keys[s] ELSE pattern[Len(s)].name]]

\* normalizeIncomingPath and getSegments.
Segments(path) ==
    LET p == IF path # Root /\ Last(path) = Empty THEN Front(path) ELSE path IN
    IF p = Root THEN <<>> ELSE p

\* resolveNodeRoute: the method's own entry, then ALL's, then GET's for a HEAD.
NodeRoute(tree, shape, method) ==
    LET order == <<method, "ALL">> \o IF method = "HEAD" THEN <<"GET">> ELSE <<>>
        known == {i \in DOMAIN order : <<shape, order[i]>> \in DOMAIN tree.routes} IN
    {<<shape, order[i]>> : i \in {j \in known : \A k \in known : j <= k}}

\* The shapes resolveNode can reach with these segments: a parameter takes any
\* segment, an empty one too, and a wildcard at least one.
Reaches(shape, segments) ==
    /\ IF HasWild(shape) THEN Len(shape) <= Len(segments) ELSE Len(shape) = Len(segments)
    /\ \A i \in DOMAIN shape : shape[i].kind = "static" => shape[i].name = segments[i]

\* resolveNode tries the static child, the parameter and the wildcard in this
\* order and comes back from a child that has no route for the method.
Rank(kind) == CASE kind = "static" -> 1 [] kind = "param" -> 2 [] kind = "wild" -> 3

TriedBefore(s, t) ==
    \E i \in DOMAIN s \cap DOMAIN t :
        /\ Rank(s[i].kind) < Rank(t[i].kind)
        /\ \A j \in 1..(i - 1) : s[j] = t[j]

\* RouteTree.resolve: a set with the one match, or empty.
ResolveInTree(tree, method, path) ==
    LET found == {s \in {at[1] : at \in DOMAIN tree.routes} :
                    Reaches(s, Segments(path)) /\ NodeRoute(tree, s, method) # {}}
        first == {s \in found : \A t \in found \ {s} : TriedBefore(s, t)} IN
    {[handlers |-> tree.routes[at].handlers,
      path |-> tree.routes[at].path,
      keys |-> {tree.keys[SubSeq(at[1], 1, i)] : i \in Nodes(at[1])}] :
        at \in UNION {NodeRoute(tree, s, method) : s \in first}}
================================================================================
