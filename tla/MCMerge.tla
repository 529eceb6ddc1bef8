------------------------------- MODULE MCMerge --------------------------------
EXTENDS Merge
MCChildren == <<"DOGE", "PEP">>
MCCoinLoop == <<"LTC", "DOGE", "PEP">>
=============================================================================
