-------------------------- MODULE MCRFSubscriptions --------------------------
(***************************************************************************)
(* Small instances of RFSubscriptions.  "x01" and "x1" are two spellings   *)
(* of one xname, "x2" is another one, "fab" is no xname.                   *)
(***************************************************************************)
EXTENDS RFSubscriptions

MCXnames == {"x1", "x01", "x2", "x3"}
MCNames == MCXnames \cup {"fab"}
MCNormalize ==
  [n \in MCXnames |-> IF n = "x01" THEN "x1" ELSE n]

Empty == [i \in SubIds |-> NoSub]
Holding(seq) ==
  [i \in SubIds |-> IF i \in DOMAIN seq THEN seq[i] ELSE NoSub]

\* what the collector made for an endpoint named x, what a BMC that drops
\* the context shows of it, and what hardware from slot y brings along
Own(x, g)  == [base |-> "http", x |-> x, ctx |-> x, pfx |-> g]
Blank(x)   == [base |-> "http", x |-> x, ctx |-> "fab", pfx |-> {}]
Moved(x,y) == [base |-> "http", x |-> x, ctx |-> y, pfx |-> {}]
Https(s)   == [s EXCEPT !.base = "https"]
Fabric     == [base |-> "other", x |-> "fab", ctx |-> "fab", pfx |-> {}]

MCForeign == {Fabric}
AnyStore ==
  {Empty, Holding(<<Moved("x2", "x2")>>), Holding(<<Https(Blank("x01"))>>),
   Holding(<<Fabric, Moved("x01", "x2")>>),
   Holding(<<Https([Moved("x01", "x2") EXCEPT !.pfx = {CrayTelemetry}])>>)}
\* a BMC that forgets the context, and hardware from other slots
LossyStore == {Empty, Holding(<<Blank("x01")>>)}
MovedStore ==
  {Holding(<<Blank("x01"), Moved("x2", "x2")>>),
   Holding(<<Own("x01", {}), Own("x01", {CrayTelemetry}), Moved("x2", "x2")>>),
   Holding(<<Moved("x2", "x2"), Moved("x3", "fab"), Fabric>>)}
EmptyStore == {Empty}

MCEpOf == [r \in Recs |-> "x01"]
==============================================================================
