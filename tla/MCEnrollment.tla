---------------------------- MODULE MCEnrollment ----------------------------
\* Installation i1 has a reusable token and tries with a1, then a2; i2, under
\* the same hostname, has a one-shot token for b1 and later the legacy flow, l1.
EXTENDS Enrollment

CONSTANTS h1, i1, i2, a1, a2, b1, l1, t1, t2

MCHostOf    == [i \in Installs |-> h1]
MCInstallOf == [a \in Attempts |-> IF a \in {a1, a2} THEN i1 ELSE i2]
MCTokenOf   == [i \in Installs |-> IF i = i1 THEN t1 ELSE t2]
=============================================================================
