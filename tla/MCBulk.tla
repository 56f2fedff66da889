------------------------------- MODULE MCBulk -------------------------------
(* Blocks of up to three bytes; regions on one and two pages, up to the end of *)
(* a page, from the end of a page that is not the last, and empty.            *)
EXTENDS Bulk, TLC

Symmetry == Permutations(Page)

MCData == {<<>>, <<CR>>, <<NL, CR>>, <<CR, NL, NL>>}

MCRegion == { << <<>> >>, << <<NL, CR>> >>, << <<NL, CR>>, <<NL>> >>, << <<CR>>, <<>> >>,
              << <<>>, <<CR>> >> }
=============================================================================
