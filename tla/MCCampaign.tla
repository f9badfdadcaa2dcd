----------------------------- MODULE MCCampaign -----------------------------
EXTENDS Campaign
SomeNames == [base : Bases, carry : {0}] \cup {[base |-> "1b", carry |-> 1]}
=============================================================================
