----------------------------- MODULE MCAnalytics -----------------------------
(* Six events: two with the same key, one without consent that claims it    *)
(* among its properties, one of an unknown type, one from a clock ahead,    *)
(* and one of another type than the first in the same minute.  Two of the   *)
(* windows collect two rows: both inside every range that is answered, or   *)
(* one on either side of the end of the default range.                      *)
EXTENDS Analytics

Props(K) == [k \in K |-> TRUE]
Wire(type, ts, consent, K) ==
    [type |-> type, sess |-> "s", ts |-> ts, consent |-> consent, props |-> Props(K),
     amount |-> -1, base |-> 999, received |-> 1]
SomePosts == <<Wire("purchase", 1, TRUE, {"a", "b"}), Wire("purchase", 1, TRUE, {}),
               Wire("click", 1, FALSE, {"_consent"}), Wire("scroll", 1, TRUE, {}),
               [Wire("click", 61, TRUE, {"device", "_x"}) EXCEPT !.received = 2],
               Wire("click", 1, TRUE, {})>>
SomeWindows == {{1, 2, 6}, {1, 5}, {3, 4}, {5}}
Query1(since, until) == [since |-> since, until |-> until, bad |-> FALSE, granularity |-> "hour"]
SomeQueries == {Query1(<<>>, <<1>>), Query1(<<>>, <<>>), Query1(<<0>>, <<61>>),
                Query1(<<2>>, <<1>>),
                [Query1(<<>>, <<>>) EXCEPT !.bad = TRUE]}
=============================================================================
