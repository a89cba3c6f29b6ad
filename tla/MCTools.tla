------------------------------ MODULE MCTools ------------------------------
(***************************************************************************)
(* Constants for the tools run: two cards, an image with a save that has a *)
(* sub-directory and a flat one, one container, a package of two KELFs of  *)
(* which one has two destinations.                                         *)
(***************************************************************************)
EXTENDS CardToolsSafety

MCCards == {"A", "B"}
Old(tree) == [p \in DOMAIN tree |-> Object(tree[p], "source")]
MCFirstCard ==
    [c \in MCCards |->
        Old(IF c = "A" THEN (<<"own">> :> "dir") @@ (<<"own", "f">> :> "d0")
            ELSE (<<"s1">> :> "dir") @@ (<<"s1", "x">> :> "d0"))]
MCCapacity == [c \in MCCards |-> IF c = "A" THEN 8 ELSE 2]
MCImageSaves == <<"s1", "s2">>
MCImageDir == (<<"s1">> :> <<"sub", "x">>) @@ (<<"s1", "sub">> :> <<"y">>)
              @@ (<<"s2">> :> <<>>)
MCImageData == (<<"s1", "x">> :> "d1") @@ (<<"s1", "sub", "y">> :> "d2")
MCPsuNames == [s \in {"own", "s1", "s2", "s3"} |->
                 IF s = "s3" THEN <<"s3.psu", "s3-01.psu">>
                 ELSE <<"other.psu", "other-01.psu">>]
MCFirstPsu == ("s3.psu" :> Container("s3", (<<"s3", "f">> :> "d3"), TRUE))
MCKelfs == <<"xlf", "xrx">>
MCTargets == <<"xlf", "xlf", "xrx">>
MCRaws == {"r1", "r2", "r3"}
MCRawSize == [r \in MCRaws |-> IF r = "r3" THEN 2 ELSE 1]
MCFirstPackages == {[s \in {"xlf", "xrx"} |-> "r1"],
                    [s \in {"xlf", "xrx"} |-> IF s = "xlf" THEN "r1" ELSE "r2"]}
MCPlans == {<<"image", "export">>, <<"export", "import">>, <<"import", "export">>,
            <<"settings", "settings">>, <<"probe", "install", "install">>}
MCSettings == {"default", "changed"}
MCWaitPoints == {"browse", "selected", "confirm"}
=============================================================================
