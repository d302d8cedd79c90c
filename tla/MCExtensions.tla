---------------------------- MODULE MCExtensions ----------------------------
EXTENDS Extensions, TLC

CONSTANTS a0, a1, a2, a3, a4, r1, r2, t1, t2, s1, s2, n0, n1, n2, f1, f2

AllJobs == {a0, a1, a2, a3, a4, r1, r2, t1, t2, s1, s2}

\* Two clients give one name; a module is removed while it is registered; a request gives one
\* name twice, the first time with a path that is refused; two clients remove a module; a
\* tokenizer is added by a client and with a worker; one of two servers is required.
SixGroups == {{a1, a2}, {a1, r1}, {a3, a4}, {r1, r2}, {t1, t2}, {s1, s2}}

Keys == a0 :> n0 @@ a1 :> n1 @@ a2 :> n1 @@ a3 :> n2 @@ a4 :> n2 @@ r1 :> a0 @@ r2 :> a0
        @@ t1 :> t1 @@ t2 :> t2 @@ s1 :> s1 @@ s2 :> s2
Order == a0 :> Nil @@ a1 :> Nil @@ a2 :> Nil @@ a3 :> Nil @@ a4 :> a3
Files == a0 :> f1 @@ a1 :> f1 @@ a2 :> f1 @@ a3 :> f2 @@ a4 :> f1
Both == r1 :> a0 @@ r2 :> a0
OneName == t1 :> n1 @@ t2 :> n1
=============================================================================
