----------------------------- MODULE MCFront -------------------------------
(***************************************************************************)
(* The front of the program, checked in one run: the scanner of the        *)
(* statements, the types that statements build and variables keep, and the *)
(* calls of nsfslite.  They share no state: a behaviour is about one.      *)
(***************************************************************************)
EXTENDS Scanner, Types, NsfsApi

VARIABLE front

MCKeys      == {<<1>>, <<1, 2>>}
MCOpCodes   == {<<"i">>}
MCMagic     == {<<"x", "i">>}
MCFirstText == {<< >>, <<"i", " ">>}

MCThreads == Permutations(Threads)

FrontInit == /\ ScannerInit /\ TypesInit /\ NsfsInit
             /\ front \in {"scanner", "types", "api"}
             /\ front # "scanner" => typed = << >>

ScannerPart == front = "scanner" /\ ScannerNext /\ UNCHANGED <<typeVars, nsfsVars, front>>
TypesPart   == front = "types" /\ TypesNext /\ UNCHANGED <<scanVars, nsfsVars, front>>
ApiPart     == front = "api" /\ NsfsNext /\ UNCHANGED <<scanVars, typeVars, front>>

FrontSpec ==
  FrontInit /\ [][ScannerPart \/ TypesPart \/ ApiPart]_<<scanVars, typeVars, nsfsVars, front>>

\* The variables of the scanner, of the builders and of the calls have their types.
FrontTypeOK == /\ front = "scanner" => ScannerTypeOK
               /\ front = "types" => TypesTypeOK
               /\ front = "api" => NsfsTypeOK

\* The tokens do not depend on how the text was cut (scanner_execute).
ScansTokens == front = "scanner" => TokensAreScan

\* A type is what its builder was given, and is read back as it was stored
\* (kvt_builder.c:63-233, types.c:195-275).
TypesKept == front = "types" => BuilderPairs /\ TypesReadBack
=============================================================================
