-------------------------- MODULE MCServiceManager --------------------------
(***************************************************************************)
(* A small instance of ServiceManager and its listing client: servers s    *)
(* and t, and an isolated client c.  A behaviour runs one of a few         *)
(* programs.                                                               *)
(***************************************************************************)
EXTENDS ServiceListing

Get(x) == [code |-> "get", name |-> x, oneway |-> FALSE]
Add(x, b, iso) == [code |-> "add", name |-> x, binder |-> b, allow |-> iso, oneway |-> FALSE]
Other(oneway) == [code |-> "other", oneway |-> oneway]

\* "long" can be registered and not listed, "over" cannot be registered.
MCNames == {"a", "b", "long", "over"}
MCLen16 == [x \in MCNames |-> CASE x = "long" -> 118 [] x = "over" -> 128 [] OTHER -> 5]
MCBinders == {"s1", "s2", "t1"}
MCOwner == [b \in MCBinders |-> IF b = "t1" THEN "t" ELSE "s"]
MCProcs == {"s", "t", "c"}
MCAllowed == ({"s", "t"} \X MCNames) \cup {<<"c", "b">>}

Sends(n, requests) == [requests |-> requests, calls |-> n, dies |-> TRUE, lists |-> FALSE]
Stays(n, requests) == [Sends(n, requests) EXCEPT !.dies = FALSE]
Lists(n) == [Stays(n, {}) EXCEPT !.lists = TRUE]

Clients(s, t, c) == [s |-> s, t |-> t, c |-> c]

\* t takes over a name of s, c may not register it.
TakeOver ==
  Clients(Sends(2, {Add("a", "s1", TRUE), Add("b", "s2", FALSE)}),
          Sends(2, {Add("a", "t1", TRUE), Get("b")}),
          Stays(1, {Get("b"), Add("a", NoBinder, TRUE)}))

\* s registers its names again.
Again ==
  Clients(Sends(3, {Add("a", "s1", TRUE), Add("b", "s2", FALSE)}),
          Sends(1, {Add("a", "t1", TRUE), Add("over", "t1", TRUE)}),
          Stays(0, {}))

\* A one-way call among the others.
Oneway ==
  Clients(Sends(2, {Add("a", "s1", TRUE), Add("b", "s2", TRUE)}),
          Stays(1, {Other(TRUE)}),
          Sends(1, {Get("a"), Other(FALSE)}))

\* c lists while s and t register.
Listing ==
  Clients(Sends(2, {Add("a", "s1", TRUE), Add("long", "s2", TRUE)}),
          Stays(1, {Add("b", "t1", TRUE)}),
          Lists(4))

Serving == {TakeOver, Again, Oneway, Listing}
=============================================================================
