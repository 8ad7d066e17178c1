---------------------------- MODULE MCCodedInput ----------------------------
(* Small inputs for CodedInput: bytes of variable-length integers that are   *)
(* whole, broken off at the end of the input, and longer than any may be.    *)
EXTENDS CodedInput

MCContents ==
    { <<>>,
      <<TRUE, TRUE, TRUE, TRUE>>,
      <<FALSE, TRUE, FALSE, FALSE>>,
      <<TRUE, FALSE, TRUE, TRUE, FALSE, FALSE>>,
      <<FALSE, TRUE, FALSE, TRUE, TRUE, FALSE, TRUE>> }

MCSizes == {-1, 0, 1, 3, 6}
=============================================================================
