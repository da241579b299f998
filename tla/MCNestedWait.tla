---------------------------- MODULE MCNestedWait ----------------------------
EXTENDS NestedWait

CONSTANTS s1, s2, s3

ThreeStrategies == {s1, s2, s3}
=============================================================================
