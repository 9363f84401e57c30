--------------------------- MODULE MCMethodFilter ---------------------------
(***************************************************************************)
(* Predicates for MethodFilter: each allow-listed signature of            *)
(* parseMethod applied to argument lists built from the tokens that the   *)
(* Jimple printer writes for each parameter type.                         *)
(***************************************************************************)
EXTENDS MethodFilter

QS     == <<"\"", "p", "\"">>                              \* "p"
CallT  == <<"<", "m", ">", "(", ")">>                      \* <m>()
CallA  == <<"<", "m", ">", "(", "<", "f", ">", ",", " ", "1", "2", ")">>  \* <m>(<f>, 12)
FieldT == <<"<", "f", ">">>                                \* <f>
AllT   == <<"A", "L", "L">>
NullT  == <<"N", "U", "L", "L">>
QP     == <<"\"", ")", "\"">>                              \* ")"
NegT   == <<"-", "1">>
NumT   == <<"1", "2">>

(* the tokens a parameter of each type may be printed as *)
Tok == [perm |-> {QS, CallT, CallA},  uid  |-> {NegT, NumT, CallA},
        int  |-> {NumT, <<"1">>, FieldT}, bool |-> {<<"0">>, <<"1">>},
        flag |-> {<<"0">>, <<"2">>},  str  |-> {QS, NullT},
        obj  |-> {FieldT, AllT},      rec  |-> {FieldT},
        text |-> {QS, QP}]

(* parameter types of the modelled signatures *)
Params == [checkUidPermission |-> <<"perm", "uid">>,
           checkPermission    |-> <<"perm", "str", "uid">>,
           hasUserRestriction |-> <<"perm", "uid">>,
           getPids            |-> <<"perm", "obj">>,
           getUid             |-> <<"uid", "uid">>,
           putString          |-> <<"obj", "text", "uid">>,
           isLocationProviderEnabledForUser |-> <<"obj", "str", "uid">>,
           checkAuthorityGrants |-> <<"int", "obj", "int", "bool">>,
           getComponentRestrictionForCallingPackage |-> <<"obj", "str", "uid", "int", "bool">>,
           handleIncomingUser |-> <<"uid", "uid", "uid", "bool", "flag", "str", "str">>,
           checkStartAnyActivityPermission |->
             <<"obj", "obj", "str", "uid", "uid", "uid", "str", "bool", "rec", "rec", "rec", "rec">>]

MCKind == [checkUidPermission |-> "first", checkPermission |-> "first",
           hasUserRestriction |-> "first", getPids |-> "first", getUid |-> "other",
           putString |-> "other",
           isLocationProviderEnabledForUser |-> "second",
           checkAuthorityGrants |-> "fourth",
           getComponentRestrictionForCallingPackage |-> "fifth",
           handleIncomingUser |-> "fourthfifth",
           checkStartAnyActivityPermission |-> "eighth"]

RECURSIVE ArgLists(_)
ArgLists(ps) == IF ps = <<>> THEN {<<>>}
                ELSE {<<t>> \o r : t \in Tok[Head(ps)], r \in ArgLists(Tail(ps))}
RECURSIVE ArgText(_)
ArgText(as) == IF Len(as) = 1 THEN as[1] ELSE as[1] \o <<",", " ">> \o ArgText(Tail(as))
Calls(sig) == {<<sig, "(">> \o ArgText(as) \o <<")">> : as \in ArgLists(Params[sig])}

(* literals and fields: getSimplifiedValInner leaves them alone *)
Plain == {<<"0">>, FieldT \o <<" ", "&", " ", "8">>}

FirstArgInputs == Plain \cup UNION {Calls(s) : s \in {"checkUidPermission", "checkPermission",
                                   "hasUserRestriction", "getPids", "getUid"}}
NthArgInputs == UNION {Calls(s) : s \in {"checkAuthorityGrants",
                                   "getComponentRestrictionForCallingPackage",
                                   "handleIncomingUser", "checkStartAnyActivityPermission"}}
(* a string argument holding a parenthesis, outside the allow-list *)
QuotedParenInputs == Calls("putString")
=============================================================================
