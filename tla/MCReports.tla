----------------------------- MODULE MCReports ------------------------------
(* Small instances of Reports.                                              *)
EXTENDS Reports, TLC

CONSTANTS A, B, own, mem, u1, u2

MCPopulation ==
    own :> [org |-> A, role |-> "owner"] @@ mem :> [org |-> A, role |-> "member"]

RequestSymmetry == Permutations(Request)

Plain(cells) == [cells |-> cells, opens |-> FALSE, closes |-> 0]
Opening(cells) == [cells |-> cells, opens |-> TRUE, closes |-> 0]
Closing(cells, n) == [cells |-> cells, opens |-> FALSE, closes |-> n]
Both(cells, n) == [cells |-> cells, opens |-> TRUE, closes |-> n]

(* An hour has two minutes.  The first file has two names of one field, the *)
(* preferred one last; rows of two hours, without host, with the host of    *)
(* their URL, short, without a time; an empty line; the second has a quote  *)
(* that is opened, closed while another is opened, and an empty line before *)
(* the one that closes that.                                                *)
MCContent ==
    u1 :> [header |-> <<"eventtime", "clientip", "host", "url", "respcode", "totaltime",
                        "cachehit", "datetime">>,
           lines |-> << Plain(<<7, 1, 3, 3, 200, 5, 1, 0>>),
                        Closing(<<7, 1, Dash, 4, 502, 9, 0, 1>>, 2),
                        Plain(<<>>),
                        Plain(<<7, Junk, Dash, 0, 404, -1, Blank, 2>>),
                        Opening(<<7, 1, 3>>) >>] @@
    u2 :> [header |-> <<"datetime", "uri", "status", "duration">>,
           lines |-> << Plain(<<1, 3, 500, 7>>), Opening(<<2, Junk>>),
                        Both(<<Blank, 404, 1>>, 1), Plain(<<>>),
                        Closing(<<Blank, 8>>, 1),
                        Closing(<<Junk, 3, 200, 2>>, 2) >>]
=============================================================================
