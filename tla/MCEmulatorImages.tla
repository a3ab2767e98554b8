--------------------------- MODULE MCEmulatorImages ---------------------------
EXTENDS EmulatorImages

Common == [qemu2 |-> TRUE, api |-> 23, x86 |-> TRUE, dataImage |-> TRUE, vendor |-> FALSE,
           key |-> FALSE, zipped |-> FALSE, patchedRamdisk |-> FALSE, density |-> 160,
           save |-> FALSE, guestGl |-> FALSE, resize |-> "unset"]

\* Every emulator, API level and set of flags that meet in a condition of the code.
MCImages ==
  {[Common EXCEPT !.qemu2 = q, !.api = a, !.dataImage = d, !.save = s, !.guestGl = g,
                  !.resize = r] :
     q \in BOOLEAN, a \in {10, 19, 23, 28}, d \in BOOLEAN, s \in BOOLEAN, g \in BOOLEAN,
     r \in {"unset", "above"}}

\* The optional images, and densities around the limits of the buckets.
MCOthers ==
  {[Common EXCEPT !.qemu2 = q, !.vendor = v, !.key = k, !.zipped = z, !.api = 28] :
     q \in BOOLEAN, v \in BOOLEAN, k \in BOOLEAN, z \in BOOLEAN}
  \cup {[Common EXCEPT !.density = d, !.save = TRUE, !.patchedRamdisk = p] :
     d \in {100, 139, 140, 199, 200, 213, 409, 410, 411, 600, 700}, p \in BOOLEAN}
  \cup {[Common EXCEPT !.save = TRUE, !.x86 = FALSE]}

\* A data partition that is large enough, or not there to be measured.
MCFits == {[Common EXCEPT !.resize = "fits", !.dataImage = d] : d \in BOOLEAN}

MCConfigs == MCFits \cup MCImages \cup MCOthers
=============================================================================
