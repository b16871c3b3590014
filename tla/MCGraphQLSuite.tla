--------------------------- MODULE MCGraphQLSuite ---------------------------
(* main()'s `tests` list (lines 409-421), each entry by its kind.          *)
EXTENDS GraphQLSuite

MCTests == <<"single", "single", "single", "single", "single", "pair",
             "single", "detail", "capture", "single", "pair">>
=============================================================================
