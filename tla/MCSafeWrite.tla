---------------------------- MODULE MCSafeWrite ----------------------------
(* Instances of SafeWrite for TLC: a few concurrent uploads and a new-folder *)
(* request that want the same name.                                          *)
EXTENDS SafeWrite, TLC

CONSTANTS u1, u2, m1, a

TwoUploads  == {u1, u2}
OneMkdir    == {m1}
NoMkdirs    == {}
OneName     == {a}
EmptyToOver  == 0 .. MaxBytes + 1
OneByte      == {1}
UploadSymmetry == Permutations(Uploads)
=============================================================================
