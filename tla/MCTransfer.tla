----------------------------- MODULE MCTransfer -----------------------------
(***************************************************************************)
(* Instances of Transfer.  A file is two or three chunks long, in two      *)
(* versions.                                                               *)
(***************************************************************************)
EXTENDS Transfer, TLC

CONSTANTS a, b

Server(x, y, ranges, ifRange, advert, head, framing, many, existing, hop) ==
  [size |-> (a :> x @@ b :> y), first |-> a, ranges |-> ranges, ifRange |-> ifRange, advert |-> advert,
   head |-> head, framing |-> framing, multi |-> many, existing |-> existing, hop |-> hop]

MCScenarios ==
  { \* One stream: a server with ranges, one that ignores If-Range, one that advertises ranges and
    \* has none, one without ranges and lengths, one that ends its bodies by closing.
    Server(2, 2, TRUE, TRUE, TRUE, TRUE, "length", FALSE, "replace", FALSE),
    Server(2, 2, TRUE, FALSE, FALSE, FALSE, "length", FALSE, "none", FALSE),
    Server(2, 1, FALSE, FALSE, TRUE, TRUE, "chunked", FALSE, "none", FALSE),
    Server(2, 2, TRUE, TRUE, TRUE, FALSE, "close", FALSE, "keep", FALSE),
    Server(1, 2, FALSE, FALSE, FALSE, TRUE, "close", FALSE, "none", TRUE),
    \* Segments: of one and two chunks, with and without If-Range.
    Server(3, 2, TRUE, TRUE, TRUE, TRUE, "length", TRUE, "replace", FALSE) }
=============================================================================
