-------------------------- MODULE MCPreviewDefense --------------------------
(* Instances of PreviewDefense for TLC. *)
EXTENDS PreviewDefense

\* The weights of apps/vor_client/assets/model/model_manifest.json, in thousandths.
MCModel ==
    [W1 |-> <<<<212, -67, -687, 824, 444, 252, 879, 156>>,
            <<-699, -293, -361, -629, 1264, 559, 656, 166>>,
            <<966, 1020, 793, 773, -140, 281, 380, 910>>,
            <<275, -313, -3, -243, 614, 469, 246, -603>>,
            <<-557, -727, 286, -566, -513, -1095, -321, -852>>,
            <<-838, 255, -68, -261, 1298, -676, -1100, 316>>,
            <<436, -480, -254, -375, 957, 34, 55, -524>>,
            <<-409, 231, 673, -426, -1235, 41, -1338, -146>>,
            <<-19, -740, 81, -94, -920, -464, -40, 441>>,
            <<-316, -202, -534, 81, -83, 232, -347, -465>>,
            <<-199, -81, 155, 328, 401, -397, 326, 150>>,
            <<474, 56, -1162, -908, 1205, -318, -522, 829>>,
            <<-1094, -464, 90, -166, 340, 1040, 460, -980>>,
            <<816, -29, -340, -914, -38, -822, -400, -723>>,
            <<-122, -294, -583, -359, 483, 334, 1529, -472>>,
            <<-67, 582, -456, 332, -533, -341, 141, -390>>>>,
     b1 |-> <<439, 486, 328, 208, 0, 745, 328, 0, 0, 0, 216, 154, -168, -62, 378, 24>>,
     W2 |-> <<<<-253, -736, 314, 238, 123, -227, -670, 129, 122, -687, -573, -59, 99, -60, -977, 46>>,
            <<-60, -519, -5, -240, -764, 1, 321, 407, 279, -117, -252, -440, -800, 28, 38, -167>>,
            <<297, 653, -197, -16, 626, 1537, 133, 80, 198, -387, 400, 997, -444, -112, -68, 584>>,
            <<355, -518, 827, -155, 26, 51, -657, 73, 179, -212, 314, 330, 166, 480, -824, 194>>,
            <<533, 433, -799, -192, 77, -793, 112, -603, -150, -230, -238, -162, -756, 162, 22, 142>>,
            <<648, 1259, -545, 792, 369, -521, 599, -385, -438, -241, 5, 233, -53, 460, 1087, -113>>,
            <<-234, -275, -416, -415, -114, -74, 258, 743, 124, -377, -202, 592, 648, 37, 460, 382>>,
            <<698, 73, 1787, 156, -429, -1011, -466, -125, -428, -608, -67, -580, 464, 354, 223, 231>>>>,
     b2 |-> <<-182, 0, 207, 224, -74, 329, -163, 424>>,
     W3 |-> <<<<-258, 966, 1220, 413, 75, 751, 593, -1787>>,
            <<199, 88, -1254, -664, -394, 1465, -245, 989>>,
            <<-130, -486, -873, 1392, 146, -1435, 568, 1624>>>>,
     b3 |-> <<141, 28, -169>>]

\* As far as the code goes: every feature towards what looks hostile; or away from it; or
\* those of the handshakes one way and those of the traffic the other.
Pushed(hostile) ==
    [k \in Features |-> IF k = "payload_entropy" THEN (IF k \in hostile THEN -AMPLITUDE ELSE AMPLITUDE)
                        ELSE IF k \in hostile THEN AMPLITUDE ELSE -AMPLITUDE]
MCHandshake == {"rst_rate", "handshake_fail_ratio", "reset_after_client_hello", "probe_hit_rate"}
MCNoises    == {Pushed(hostile) : hostile \in {{}, Features, MCHandshake, Features \ MCHandshake}}

\* To the other side of a threshold of the plans.
MCSliders == {<<"timing_regularity", 600>>}
=============================================================================
