------------------------------ MODULE MCCommands ------------------------------
(* The programs of MCPrograms under the three commands.                    *)
EXTENDS Commands, MCPrograms

MCRequests ==
  << <<"build-aot", Built>>,
     <<"run", Singles>>,    <<"run", Triples>>,   <<"run", Quads>>,
     <<"run", Iterations>>, <<"run", Matchings>>, <<"run", Misunderstood>>,
     <<"build", Singles>>,  <<"build", Triples>>, <<"build", Quads>> >>
===============================================================================
