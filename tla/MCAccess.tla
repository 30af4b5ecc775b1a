------------------------------ MODULE MCAccess ------------------------------
EXTENDS Access, TLC
Uis == [provider |-> "campus-uis", fallback |-> FALSE]
UisLocal == [provider |-> "campus-uis", fallback |-> TRUE]
LocalOnly == [provider |-> "local", fallback |-> FALSE]
Two == {UisLocal, LocalOnly}
Three == {Uis, UisLocal, LocalOnly}
Alike == Permutations(Users) \cup Permutations(Cookies)
=============================================================================
