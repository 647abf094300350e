----------------------------- MODULE MCFixPlan ------------------------------
\* Small instances of FixPlan: the findings a scan may report.
EXTENDS FixPlan

at(file, rule, safety, from, to, module) ==
  [file |-> file, rule |-> rule, safety |-> safety, from |-> from, to |-> to,
   module |-> module]

\* File a: a guard inserted where a comparison begins, and a second comparison
\* with a guard listed after it and a body access inside.  File b: a comparison and
\* an adjacent body access, an unsafe rewrite with the range of the comparison
\* and a guard on the first line, where the imports of this file go.
EightFindings ==
  <<at("a", "guard",   "safe",   1, 1, NoModule),
    at("a", "timing",  "safe",   1, 3, "crypto"),
    at("a", "timing",  "safe",   4, 7, "crypto"),
    at("a", "guard",   "safe",   4, 4, NoModule),
    at("a", "rawbody", "safe",   5, 6, NoModule),
    at("b", "timing",  "safe",   2, 4, "crypto"),
    at("b", "unsafe",  "unsafe", 2, 4, NoModule),
    at("b", "guard",   "safe",   0, 0, NoModule)>>

\* The imports of a go after its first byte, those of b at its beginning.
TopOfFile == [f \in {"a", "b"} |-> IF f = "a" THEN 1 ELSE 0]
=============================================================================
