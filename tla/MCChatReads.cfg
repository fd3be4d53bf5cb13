SPECIFICATION Spec
CONSTANTS
    None = None
    User <- MCUser
    Groups <- MCGroups
    ChatId = {1, 2}
    DefaultLimit = 1
    MaxLimit = 2
    Asked <- MCAsked
    MaxMessages = 3
    MaxTime = 2
INVARIANTS TypeOK EachChatIsListedOnce MembersAreThoseNamed OldMessagesAreRead RepeatsHaveAReason
CHECK_DEADLOCK FALSE
