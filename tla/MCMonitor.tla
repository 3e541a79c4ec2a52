------------------------------- MODULE MCMonitor -------------------------------
(***************************************************************************)
(* Two callers race for the dictionary, one list of words and one of stop  *)
(* words are monitored.                                                    *)
(***************************************************************************)
EXTENDS Monitor

A == 65
a == 97
b == 98
c == 99

MCWords == {<<a>>, <<a, b>>, <<b>>, <<c>>}

Complete == [file \in {"main.dic", "surname.dic"} |->
                IF file = "main.dic" THEN <<<<a>>, <<Space>>>> ELSE <<<<c>>>>]
Broken   == [file \in {"main.dic"} |-> <<<<c>>>>]

MCRequests == {[settings |-> [key \in {} |-> ""], env |-> Complete],
               [settings |-> [key \in {} |-> ""], env |-> Broken],
               [settings |-> [key \in {"enable_remote_dict"} |-> "false"], env |-> Complete]}

MCMainFiles     == <<"main.dic">>
MCCriticalFiles == <<"surname.dic">>
MCStopFiles     == <<"stopword.dic">>
MCRemoteMain    == <<"ext">>
MCRemoteStop    == <<"ext_stop">>

(* The first list is known by both headers, the second by its date alone.  *)
MCRemoteWords == [l \in {"ext", "ext_stop"} |->
                     IF l = "ext" THEN <<<<<<A, b, Space>>>>, <<<<b>>>>>>
                                  ELSE <<<<>>, <<<<b>>>>>>]

(* What can be read from them.                                             *)
MCLoads == {<<>>} \cup {Lines("main.dic", words) : words \in {<<<<a>>, <<Space>>>>, <<<<c>>>>}}
                \cup {Lines("surname.dic", <<<<c>>>>)}
                \cup {Lines(l, MCRemoteWords[l][v]) : l \in {"ext", "ext_stop"}, v \in 1..2}

MCTags == [l \in {"ext", "ext_stop"} |->
              IF l = "ext"
              THEN <<[lastModified |-> "monday", eTag |-> "1"],
                     [lastModified |-> "monday", eTag |-> "2"]>>
              ELSE <<[lastModified |-> "monday", eTag |-> ""],
                     [lastModified |-> "tuesday", eTag |-> ""]>>]

=============================================================================
