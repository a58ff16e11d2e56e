----------------------------- MODULE MCBgSearch -----------------------------
(* Instances of BgSearch for TLC.  With a slack of 0 a throttle at 1 opens *)
(* again; with a slack of 1 it is not above it and never does.             *)
EXTENDS BgSearch, TLC

Plain ==
    [verify |-> FALSE, limit |-> 0, throttleat |-> 0, slack |-> 0, candidates |-> 2, totals |-> 0 .. 4,
     fates |-> {"hit", "filtered"}, failing |-> FALSE, interruptible |-> FALSE]
Failing   == [Plain EXCEPT !.fates = {"hit", "malformed"}, !.failing = TRUE]
Verifying == [Plain EXCEPT !.verify = TRUE, !.candidates = 1, !.fates = {"hit", "miss", "filtered"}]
Limited   == [Plain EXCEPT !.verify = TRUE, !.limit = 1, !.fates = {"hit"}, !.totals = {4}]
Missing   == [Limited EXCEPT !.totals = {3}, !.fates = {"miss"}]
Throttled == [Limited EXCEPT !.limit = 0, !.throttleat = 1, !.totals = {3}]
Stopped   == [Throttled EXCEPT !.slack = 1, !.interruptible = TRUE, !.totals = {2}]

Searches  == {Plain, Failing, Verifying, Limited, Missing, Throttled, Stopped}
OnlyPlain == {Plain}
OnlyVerifying == {Verifying}
=============================================================================
