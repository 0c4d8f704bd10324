SPECIFICATION FairSpec
CONSTANTS
    Chars <- CommentChars
    MaxLen = 2
    Sources <- CommentSources
INVARIANT
    CommentsIgnored
CHECK_DEADLOCK FALSE
