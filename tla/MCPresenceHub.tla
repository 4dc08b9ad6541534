--------------------------- MODULE MCPresenceHub ---------------------------
(***************************************************************************)
(* Small instances of PresenceHub: m1 has a web page and the mobile        *)
(* application, m2 a web page.                                             *)
(***************************************************************************)
EXTENDS PresenceHub, TLC

CONSTANTS s1, s2, s3, m1, m2, c1, p1

MCOwner == [s \in Sockets |-> IF s \in {s1, s2} THEN m1 ELSE m2]
MCApp == [s \in Sockets |-> IF s = s2 THEN "mobile" ELSE "web"]
MCScreens == [s \in Sockets |-> {NoRoom} \cup IF s = s2 THEN Chats ELSE Plans]
=============================================================================
