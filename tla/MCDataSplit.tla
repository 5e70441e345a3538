---------------------------- MODULE MCDataSplit -----------------------------
(* A small instance of DataSplit for TLC. *)
EXTENDS DataSplit, TLC

CONSTANTS v1, v2, v3, v4, vid,              \* videos; the last is Indonesian
          s1, s2, s3,                     \* speakers of the conversational corpus
          f1, f2, f3, r1,                 \* sentences and a reader
          a1, a2, b1, b2, d1, g1, i1, o1, z1, \* context clips
          m1, m2, n1, n2, k1, w1,         \* conversational clips
          t1, t2, t3, t4, e1, c1, c2      \* read clips and control clips

Line(v, m, i, y) == [video |-> v, malay |-> m, id |-> i, my |-> y]

\* Line 2 is not Malay, the video of lines 5 and 6 is Indonesian, and the last line is
\* beyond a cut.
MCIndex == <<Line(v1, TRUE, 0, 1), Line(v1, FALSE, 9, 0), Line(v2, TRUE, 0, 1),
             Line(v2, TRUE, 0, 1), Line(vid, TRUE, 2, 0), Line(vid, TRUE, 1, 1),
             Line(v3, TRUE, 1, 2), Line(v4, TRUE, 0, 1),
             Line(v4, TRUE, 0, 0)>>
MCSpeakerIds == <<s1, s1, s2, s2, s3, s3>>

Context == {a1, a2, b1, b2, d1, g1, i1, o1, z1}
Conversational == {m1, m2, n1, n2, k1, w1}
MCClips == Context \cup Conversational \cup {t1, t2, t3, t4, e1, c1, c2}
MCStored == MCClips \ {z1}

MCKind == [ctx |-> "context", conv |-> "conversational", val |-> "fleurs",
           test |-> "fleurs", clean |-> "librispeech"]
MCSourceOf ==
    [c \in MCClips |-> CASE c \in Context -> "ctx"
                         [] c \in Conversational -> "conv"
                         [] c \in {t1, t2, t3, t4} -> "val"
                         [] c = e1 -> "test"
                         [] OTHER -> "clean"]

At(i, n) == [at |-> i, length |-> n, words |-> 3]
MCRow ==
    (a1 :> At(0, 1)) @@ (a2 :> At(1, 2)) @@ (b1 :> At(2, 1)) @@ (b2 :> At(3, 2)) @@
    (i1 :> At(4, 2)) @@ (d1 :> At(6, 2)) @@ (g1 :> At(7, 1)) @@
    (o1 :> At(8, 2)) @@ (z1 :> At(6, 1)) @@
    (m1 :> At(0, 1)) @@ (m2 :> At(1, 2)) @@ (n1 :> At(2, 2)) @@ (n2 :> At(3, 1)) @@
    (k1 :> At(4, 3)) @@ (w1 :> [at |-> 5, length |-> 1, words |-> 1]) @@
    (t1 :> At(f1, 1)) @@ (t2 :> At(f2, 2)) @@ (t3 :> At(f1, 1)) @@ (t4 :> At(f3, 2)) @@
    (e1 :> At(f1, 2)) @@
    (c1 :> At(r1, 1)) @@ (c2 :> At(r1, 4))

MCBuckets == <<[min |-> 1, max |-> 2], [min |-> 2, max |-> 3]>>
MCShare == <<1, 1>>

Takes(s, t, trainQuota, evalQuota, devQuota, factor) ==
    [train |-> s, eval |-> t, trainQuota |-> trainQuota, evalQuota |-> evalQuota,
     devQuota |-> devQuota, factor |-> factor]
Plan(categories, lines) ==
    [categories |-> categories, control |-> "clean", controlQuota |-> 1, lines |-> lines]

MCConfigs ==
    {Plan(<<Takes("ctx", "ctx", 1, 2, 1, 1)>>, 8),
     Plan(<<Takes("ctx", "ctx", 1, 1, 1, 1)>>, 9),
     Plan(<<Takes("ctx", "ctx", 1, 1, 1, 1)>>, 4),
     Plan(<<Takes("conv", "conv", 1, 1, 1, 1), Takes("val", "test", 1, 1, 1, 1)>>, 0),
     Plan(<<Takes("val", "val", 1, 1, 1, 1)>>, 0),
     Plan(<<Takes("conv", "test", 1, 1, 0, 1), Takes("conv", "conv", 1, 1, 0, 1)>>, 0)}
=============================================================================
