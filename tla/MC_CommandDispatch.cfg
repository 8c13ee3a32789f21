\* Chat dispatch of one client: every registered command and one unknown
\* token, with up to two words, in any client context.
CONSTANTS
    Words <- MC_Words
    WordLen <- MC_WordLen
    StartsWith <- MC_StartsWith
    Numbers <- MC_Numbers
    DoorIDs <- MC_DoorIDs
    KnownIDs <- MC_KnownIDs
    SecondWords <- MC_SecondWords
SPECIFICATION Spec
INVARIANT HandlersCheckLogin
