CONSTANTS
    Methods <- MCMethods
    Replies <- MCReplies

SPECIFICATION Spec

INVARIANT HeaderCheckAnswers
