CONSTANT MaxIndex = 6
SPECIFICATION ListSpec
INVARIANTS ListTypeOK PublishesStatuses
