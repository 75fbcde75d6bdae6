-------------------------- MODULE MCCustomHostname --------------------------
(* CustomHostname for TLC: two profiles, and the three kinds of deployment. *)
EXTENDS CustomHostname, TLC

MCProfiles == <<"fuzefront", "fuzeplan">>
MCBackends == {<<"cloudflare", TRUE>>, <<"cloudflare", FALSE>>, <<"stub", TRUE>>}
Symmetry == Permutations(Calls) \cup Permutations(Domains)
=============================================================================
