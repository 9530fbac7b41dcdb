---------------------------- MODULE MCDiagnosis ----------------------------
(* Instances of DiagnosisCheck: two nested groups, so that a domain can match *)
(* both, and a finalizer whose domain only looks like ending in one of them.  *)
EXTENDS DiagnosisCheck

Example == <<"example", "com">>
Apps    == <<"apps", "example", "com">>

MCGroups == {Example, Apps}

Question(finalizer, isNamespace, conds) ==
    [finalizer |-> finalizer, isNamespace |-> isNamespace, conds |-> conds]

OwnedQuestions ==
    {Question([domain |-> d, name |-> "cleanup"], FALSE, {}) :
        d \in {Apps, Example, <<"widgets", "example", "com">>, <<"myexample", "com">>, <<>>}}
    \union {Question(f, FALSE, {}) :
        f \in {Kubernetes, [domain |-> <<"kubernetes", "io">>, name |-> "pvc-protection"]}}

NamespaceQuestions == {Question(Kubernetes, TRUE, c) : c \in SUBSET Conditions}

AllQuestions == OwnedQuestions \union NamespaceQuestions
=============================================================================
