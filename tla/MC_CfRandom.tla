----------------------------- MODULE MC_CfRandom -----------------------------
(* A buffer of 6 bytes taken 2 at a time by the word functions (8192 and 8 *)
(* in the source), and requests of every kind cf_get_rand_buf meets: a     *)
(* negative len, 0, an odd len that leaves a remainder, a len larger than  *)
(* what is left after one word, and len = sizeof(rand_buf).                *)
EXTENDS CfRandom

MCLens == {-1, 0, 1, 5, 6}

=============================================================================
