--------------------------- MODULE MCDesktopApp ---------------------------
(* Small instances of DesktopApp: a host asked from two machines, first     *)
(* with identities, then with one that has none and sends that fail; one    *)
(* asked from two ports of one machine, with sends that fail; one with a    *)
(* single viewer that dies and whose disk fails; a connect page with two    *)
(* addresses and two names; and one whose saved host is probed.             *)
EXTENDS DesktopApp

CONSTANTS a1, a2, p1, p2, v1, v2, work, home

Host(id, says, dies, unsent) ==
  [mode |-> "host", id |-> id, says |-> says, names |-> {}, addresses |-> {},
   crashes |-> IF dies THEN 1 ELSE 0, failures |-> dies, unsent |-> unsent,
   events |-> 2, commands |-> 1, probing |-> FALSE]

Page(names, addresses, dies, probing_) ==
  [mode |-> "connect", id |-> [p \in Peer |-> v1], says |-> [p \in Peer |-> {}],
   names |-> names, addresses |-> addresses, crashes |-> IF dies THEN 1 ELSE 0,
   failures |-> dies, unsent |-> FALSE, events |-> 1, commands |-> 1,
   probing |-> probing_]

Apart == [p \in Peer |-> IF p = p1 THEN v1 ELSE v2]
Ports == [p \in Peer |-> v1]
All(id) == [p \in Peer |-> {None, id[p]}]

MCBounds == {
  Host(Apart, All(Apart), FALSE, FALSE),
  Host(Apart, [All(Apart) EXCEPT ![p2] = {None}], FALSE, TRUE),
  Host(Ports, All(Ports), FALSE, TRUE),
  Host(Ports, [All(Ports) EXCEPT ![p2] = {}], TRUE, FALSE),
  Page({work, home}, {a1, a2}, TRUE, FALSE),
  Page({work}, {a1}, FALSE, TRUE) }
============================================================================
