----------------------------- MODULE MCSymbols -----------------------------
(***************************************************************************)
(* Three identifiers, each of which may name a class, or objects of        *)
(* several scopes.  Where the compiler leaves a scope out of the server's  *)
(* map, or records a reference beside its token, the server is not asked.  *)
(***************************************************************************)
EXTENDS Symbols, TLC

Identifiers == Permutations(Names)

AllScopes    == Kinds
MarkedScopes == Kinds \ {"block"}
AllTokens    == Tokens
NamedTokens  == Tokens \ {"parameter"}
=============================================================================
