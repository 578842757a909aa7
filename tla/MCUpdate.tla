------------------------------ MODULE MCUpdate ------------------------------
(* An archive with a file before and one after the program, and releases    *)
(* that are older, the same, a patch, a minor and a major version later,    *)
(* and three with a component of two digits, of which the last is the only   *)
(* one that is compared with as many digits as the version installed.       *)
EXTENDS Update

MCArchive == <<"lib", "program", "www">>
MCInstalled == <<0, 5, 1>>
MCReleases ==
    {<<0, 4, 9>>, <<0, 5, 1>>, <<0, 5, 2>>, <<0, 6, 0>>, <<1, 0, 0>>,
     <<0, 5, 10>>, <<0, 10, 0>>,
     <<11, 0, 0>>}
=============================================================================
