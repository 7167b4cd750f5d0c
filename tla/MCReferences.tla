---------------------------- MODULE MCReferences ---------------------------
(***************************************************************************)
(* An Outer holds an Inner and a pointer to an Outer; an Inner holds a     *)
(* primitive.  Chains over links reach every level of indirection.         *)
(***************************************************************************)
EXTENDS References, TLC

MCLayout ==
  ("Outer" :> << [name |-> "in", kind |-> "object", class |-> "Inner"],
                 [name |-> "link", kind |-> "pointer", class |-> "Outer"] >>) @@
  ("Inner" :> << [name |-> "x", kind |-> "value", class |-> ""] >>)

MCGlobals  == "o" :> "Outer"
MCPointers == "p" :> "Outer"
MCLocals   == "l" :> "Inner"
MCLocalOuter == "l" :> "Outer"

MCNewNames == ("Outer" :> << <<"n1">> >>) @@ ("Inner" :> << <<"e1">>, <<"e2">> >>)

MCValues == { <<"v1">> }

MCPaths ==
  { <<"o">>, <<"o", "in">>, <<"o", "in", "x">>, <<"o", "link">>, <<"o", "link", "link", "in">>,
    <<"p">>, <<"p", "in">>, <<"p", "link", "in", "x">>,
    <<"this">>, <<"this", "x">>, <<"this", "in">>, <<"this", "in", "x">>,
    <<"this", "link">>, <<"this", "link", "link", "in", "x">>,
    <<"l">>, <<"l", "x">>, <<"l", "in", "x">> }

MCCalls == { <<"p">>, <<"this", "in">>, <<"l">> }

\* Nothing is named but the pointer: whatever is deleted is deleted through it.
OnlyPointer == { <<"p">> }
NoCalls     == {}
=============================================================================
