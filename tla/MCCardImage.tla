---------------------------- MODULE MCCardImage ----------------------------
(* Cards of two and of four pages, two pages to a batch, a block and a     *)
(* write batch.                                                            *)
EXTENDS CardImageSafety, TLC

MCSizes  == {2, 4}
MCOther  == {-2}
MCBuilds == BOOLEAN
MCNames  == {0, 1}

Big         == (0 :> 4) @@ (1 :> -2) @@ (2 :> -2) @@ (3 :> 0)
Small       == (0 :> 2) @@ (1 :> -2)
Unformatted == (0 :> 0) @@ (1 :> -2) @@ (2 :> 0) @@ (3 :> -2)
Overstated  == (0 :> 4) @@ (1 :> -2)

MCCards     == {Big, Small, Unformatted, Overstated}
MCTopFormat == {Unformatted}

File(data) == [exists |-> TRUE, data |-> data]
NoFiles == [m \in Paths |-> NoImage]
OneFile(f, d) == [NoFiles EXCEPT ![<<f, 0>>] = File(d)]
MCNoImages == {NoFiles}
MCOneImage == {OneFile("vmc", <<4, -2, -2, -2>>)}
MCImages   == {NoFiles, OneFile("vmc", <<4, -2, -2, -2>>), OneFile("ps2", <<2, 0>>),
               OneFile("ps2", <<2, 0, -1, 0>>)}

MCSwap   == {"idle"}
MCFaults == {"rpc", "card", "usb", "silent", "power"}
MCCard   == {"card"}
MCSilent == {"silent"}
=============================================================================
