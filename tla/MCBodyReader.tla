---------------------------- MODULE MCBodyReader ----------------------------
(* BodyReader with frames below, at and above the limit, and gzip bodies    *)
(* that decode to less, to as much and to more than is allowed.             *)
EXTENDS BodyReader

MCFrameSizes == {0, 1, 4}
MCAdvertised == {0, 2, 3, 4}
MCPlains == {0, 2, 4, 5, 7}
=============================================================================
