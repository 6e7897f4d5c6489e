---------------------------- MODULE MCCollection ----------------------------
(* A small instance of BrowserCollection: a browser with two tabs, another   *)
(* browser, and one registration.                                            *)
EXTENDS BrowserCollection, TLC

CONSTANTS b1, b2, t1, t2, t3, r1, k1, k2, s1

MCBrowserOf == (t1 :> b1) @@ (t2 :> b1) @@ (t3 :> b2)
OneAuthor == (r1 :> b1)
\* Collections are interchangeable, and so are the two tabs of the first browser.
Interchangeable == Permutations(Collections) \cup Permutations({t1, t2})
=============================================================================
